---- MODULE Spec2Model ----
(***************************************************************************)
(* A model of the bookmark-to-skill pipeline of x-bookmark-skill:          *)
(* topic extraction (lib/keywords.ts), clustering (lib/cluster.ts),        *)
(* scoring, hierarchy and actionable items (lib/skill.ts), the search      *)
(* cache and fetchBookmarks (lib/api.ts), the commands and request         *)
(* handlers with their two cache files (index.ts), the import schedule     *)
(* and the ignored keywords (lib/manager.ts).                              *)
(*                                                                         *)
(* Strings are sequences of one-character strings, so that case, white    *)
(* space and tokenisation are computed character by character as the       *)
(* JavaScript string functions compute them.  Times are whole days since   *)
(* the epoch (the code uses milliseconds; every threshold of the code is   *)
(* a whole number of days); in the search specification one unit of the   *)
(* clock is five minutes, the unit of the two cache lifetimes.  Fractions  *)
(* are fixed-point integers in millionths (Micro).                         *)
(***************************************************************************)
EXTENDS Integers, Sequences, FiniteSets, TLC

VARIABLES
  pc,            \* position of the run: which stage has completed
  tweets,        \* the Post list handed to the pipeline (bookmarks.json)
  minClusterSize,\* the minClusterSize argument of clusterByTopics
  bookmarks,     \* result of parseBookmarks
  clusters,      \* result of clusterByTopics
  skills,        \* result of buildSkills / buildSkillHierarchy
  clock,         \* the wall clock that Date.now() reads
  probeScore,    \* argument handed to scoreToLevel (scoring entry point)
  probeLevel,    \* result of scoreToLevel(probeScore)
  probeIn,       \* argument of a function of skill.ts called on its own
  probeOut,      \* its result
  cache,         \* the search cache directory: cache key -> CacheEntry
  requests,      \* number of requests sent to the search endpoint
  searches,      \* the calls of searchTweets so far: options, time, requests, result
  bookmarksFile, \* data/bookmarks.json (BOOKMARKS_FILE of index.ts)
  skillsFile,    \* data/skills.json (SKILLS_FILE of index.ts)
  handler,       \* the command or request handler of index.ts that is running
  reply,         \* the skills the last call of getSkills returned
  schedule,      \* data/schedule.json as getSchedule reads it
  ignoredKeywords, \* the ignoredKeywords list of data/skill-manager.json
  fetch          \* the locals of the running call of fetchBookmarks

\* the variables of the calls of single functions
probeVars == << probeIn, probeOut >>

\* the variables of the search (api.ts)
searchVars == << cache, requests, searches >>

\* the files of the data directory
fileVars == << bookmarksFile, skillsFile, schedule, ignoredKeywords >>

\* the calls of index.ts and of fetchBookmarks
callVars == << handler, reply, fetch >>

vars == << pc, tweets, minClusterSize, bookmarks, clusters, skills, clock,
           probeScore, probeLevel, probeVars, searchVars, fileVars, callVars >>

\* no function has been called on its own
NoProbe == "none"
NoProbeCall == probeIn = NoProbe /\ probeOut = NoProbe

\* no search was made and the cache directory is empty
NoSearch == cache = << >> /\ requests = 0 /\ searches = << >>

\* lastRunAt: null
NullTime == -1

\* the configuration getSchedule returns when there is no schedule file
DefaultSchedule ==
  [ enabled |-> FALSE, frequency |-> "daily", nextRunAt |-> 0,
    lastRunAt |-> NullTime, createdAt |-> 0 ]

\* an empty data directory
NoFiles ==
  /\ bookmarksFile = [ exists |-> FALSE, tweets |-> << >> ]
  /\ skillsFile = [ exists |-> FALSE, skills |-> << >> ]
  /\ schedule = DefaultSchedule
  /\ ignoredKeywords = << >>

\* no call of fetchBookmarks is running.  at is the position of the call;
\* allTweets is the number of tweets collected, nextToken whether the last
\* page carried a next_token; lookups and pages count the requests sent to
\* /users/me and to /bookmarks; overfull tells whether a page held more
\* tweets than its request asked for
IdleFetch ==
  [ at |-> "idle", count |-> 0, allTweets |-> 0, nextToken |-> FALSE,
    requests |-> 0, maxRequests |-> 0, maxResults |-> 0,
    lookups |-> 0, pages |-> 0, overfull |-> FALSE ]

\* no handler and no fetch is running
NoCalls == handler = "none" /\ reply = << >> /\ fetch = IdleFetch

-----------------------------------------------------------------------------
(* Characters and strings                                                  *)

UpperChars == << "A","B","C","D","E","F","G","H","I","J","K","L","M",
                 "N","O","P","Q","R","S","T","U","V","W","X","Y","Z" >>
LowerChars == << "a","b","c","d","e","f","g","h","i","j","k","l","m",
                 "n","o","p","q","r","s","t","u","v","w","x","y","z" >>
DigitChars == { "0","1","2","3","4","5","6","7","8","9" }

Range(s) == { s[i] : i \in DOMAIN s }

IsUpper(c) == \E i \in DOMAIN UpperChars : UpperChars[i] = c
IsLower(c) == \E i \in DOMAIN LowerChars : LowerChars[i] = c
IsAlpha(c) == IsUpper(c) \/ IsLower(c)

\* the regular-expression class \s (the ASCII members)
IsSpace(c) == c \in { " ", "\t", "\n", "\r" }

\* the regular-expression class \w
IsWord(c) == IsAlpha(c) \/ c \in DigitChars \/ c = "_"

ToLowerChar(c) ==
  IF IsUpper(c)
    THEN LowerChars[CHOOSE i \in DOMAIN UpperChars : UpperChars[i] = c]
    ELSE c

ToUpperChar(c) ==
  IF IsLower(c)
    THEN UpperChars[CHOOSE i \in DOMAIN LowerChars : LowerChars[i] = c]
    ELSE c

\* String.prototype.toLowerCase
ToLowerCase(s) == [ i \in DOMAIN s |-> ToLowerChar(s[i]) ]

\* s.slice(i - 1): the characters of s from position i (1-based) on
From(s, i) == IF i > Len(s) THEN << >> ELSE SubSeq(s, i, Len(s))

\* whether p occurs in s at position i
MatchesAt(s, i, p) ==
  /\ i + Len(p) - 1 <= Len(s)
  /\ \A k \in DOMAIN p : s[i + k - 1] = p[k]

\* Array.prototype.includes / Set.prototype.has on a sequence
Has(seq, x) == \E i \in DOMAIN seq : seq[i] = x

\* the first position >= i of s whose character satisfies no Test, i.e. the
\* end of a maximal run; Len(s) + 1 when the run reaches the end
RECURSIVE EndOfNonSpace(_, _)
EndOfNonSpace(s, i) ==
  IF i > Len(s) \/ IsSpace(s[i]) THEN i ELSE EndOfNonSpace(s, i + 1)

RECURSIVE EndOfWord(_, _)
EndOfWord(s, i) ==
  IF i > Len(s) \/ ~IsWord(s[i]) THEN i ELSE EndOfWord(s, i + 1)

RECURSIVE EndOfSpace(_, _)
EndOfSpace(s, i) ==
  IF i > Len(s) \/ ~IsSpace(s[i]) THEN i ELSE EndOfSpace(s, i + 1)

\* [...new Set(seq)]: the distinct elements of seq in first-seen order
RECURSIVE Dedupe(_)
Dedupe(seq) ==
  IF seq = << >> THEN << >>
  ELSE LET init == Dedupe(SubSeq(seq, 1, Len(seq) - 1))
           last == seq[Len(seq)]
       IN  IF Has(init, last) THEN init ELSE Append(init, last)

-----------------------------------------------------------------------------
(* lib/keywords.ts                                                         *)

STOPWORDS ==
  {
    <<"t","h","e">>, <<"a">>, <<"a","n">>, <<"a","n","d">>, <<"o","r">>, <<"b","u","t">>,
    <<"i","n">>, <<"o","n">>, <<"a","t">>, <<"t","o">>, <<"f","o","r">>, <<"o","f">>,
    <<"w","i","t","h">>, <<"b","y">>, <<"f","r","o","m">>, <<"a","s">>, <<"i","s">>,
    <<"w","a","s">>, <<"a","r","e">>, <<"w","e","r","e">>, <<"b","e","e","n">>, <<"b","e">>,
    <<"h","a","v","e">>, <<"h","a","s">>, <<"h","a","d">>, <<"d","o">>, <<"d","o","e","s">>,
    <<"d","i","d">>, <<"w","i","l","l">>, <<"w","o","u","l","d">>, <<"c","o","u","l","d">>,
    <<"s","h","o","u","l","d">>, <<"m","a","y">>, <<"m","i","g","h","t">>, <<"m","u","s","t">>,
    <<"s","h","a","l","l">>, <<"c","a","n">>, <<"n","e","e","d">>, <<"t","h","i","s">>,
    <<"t","h","a","t">>, <<"t","h","e","s","e">>, <<"t","h","o","s","e">>, <<"i","t">>,
    <<"i","t","s">>, <<"h","o","w">>, <<"w","h","a","t">>, <<"w","h","e","n">>,
    <<"w","h","e","r","e">>, <<"w","h","o">>, <<"w","h","i","c","h">>, <<"w","h","y">>,
    <<"a","l","l">>, <<"e","a","c","h">>, <<"e","v","e","r","y">>, <<"b","o","t","h">>,
    <<"f","e","w">>, <<"m","o","r","e">>, <<"m","o","s","t">>, <<"o","t","h","e","r">>,
    <<"s","o","m","e">>, <<"s","u","c","h">>, <<"n","o">>, <<"n","o","t">>, <<"o","n","l","y">>,
    <<"o","w","n">>, <<"s","a","m","e">>, <<"s","o">>, <<"t","h","a","n">>, <<"t","o","o">>,
    <<"v","e","r","y">>, <<"j","u","s","t">>, <<"a","b","o","u","t">>, <<"i","n","t","o">>,
    <<"t","h","r","o","u","g","h">>, <<"d","u","r","i","n","g">>, <<"b","e","f","o","r","e">>,
    <<"a","f","t","e","r">>, <<"a","b","o","v","e">>, <<"b","e","l","o","w">>,
    <<"b","e","t","w","e","e","n">>, <<"u","n","d","e","r">>, <<"a","g","a","i","n">>,
    <<"f","u","r","t","h","e","r">>, <<"t","h","e","n">>, <<"o","n","c","e">>,
    <<"h","e","r","e">>, <<"t","h","e","r","e">>, <<"a","n","y">>, <<"h","t","t","p">>,
    <<"h","t","t","p","s">>, <<"w","w","w">>, <<"c","o","m">>, <<"o","r","g">>, <<"n","e","t">>,
    <<"i","o">>, <<"h","t","m","l">>, <<"h","t","m">>, <<"r","t">>, <<"v","i","a">>,
    <<"a","m","p">>, <<"l","i","k","e">>, <<"n","e","w">>, <<"g","e","t">>, <<"g","o","t">>,
    <<"i","m">>, <<"d","o","n","t">>, <<"y","o","u","r","e">>, <<"t","h","e","y","r","e">>,
    <<"h","e","s">>, <<"s","h","e","s">>, <<"t","h","a","t","s">>, <<"w","h","a","t","s">>,
    <<"h","e","r","e","s">>, <<"t","h","e","r","e","s">>, <<"w","o","n","t">>,
    <<"c","a","n","t">>, <<"d","i","d","n","t">>, <<"d","o","e","s","n","t">>,
    <<"i","s","n","t">>, <<"a","r","e","n","t">>, <<"w","a","s","n","t">>,
    <<"w","e","r","e","n","t">>, <<"h","a","s","n","t">>, <<"h","a","v","e","n","t">>,
    <<"h","a","d","n","t">>, <<"s","h","o","u","l","d","n","t">>,
    <<"w","o","u","l","d","n","t">>, <<"c","o","u","l","d","n","t">>, <<"l","e","t">>,
    <<"u","s">>, <<"g","o">>, <<"u","p">>, <<"o","u","t">>, <<"i","f">>, <<"e","l","s","e">>,
    <<"y","o","u","r">>, <<"m","y">>, <<"o","u","r">>, <<"t","h","e","i","r">>, <<"h","i","s">>,
    <<"h","e","r">>, <<"m","e">>, <<"h","i","m">>, <<"t","h","e","m">>, <<"w","e">>,
    <<"t","h","e","y">>, <<"h","e">>, <<"s","h","e">>, <<"i">>, <<"y","o","u">>,
    <<"o","n","e">>, <<"a","l","s","o">>, <<"b","a","c","k">>, <<"n","o","w">>,
    <<"e","v","e","n">>, <<"s","t","i","l","l">>
  }

TOPIC_ALIASES ==
    (<<"m","l">> :> <<"m","a","c","h","i","n","e"," ","l","e","a","r","n","i","n","g">>) @@
    (<<"d","l">> :> <<"d","e","e","p"," ","l","e","a","r","n","i","n","g">>) @@
    (<<"a","i">> :> <<"a","r","t","i","f","i","c","i","a","l"," ","i","n","t","e","l","l","i","g","e","n","c","e">>) @@
    (<<"l","l","m">> :> <<"l","a","r","g","e"," ","l","a","n","g","u","a","g","e"," ","m","o","d","e","l">>) @@
    (<<"l","l","m","s">> :> <<"l","a","r","g","e"," ","l","a","n","g","u","a","g","e"," ","m","o","d","e","l","s">>) @@
    (<<"n","l","p">> :> <<"n","a","t","u","r","a","l"," ","l","a","n","g","u","a","g","e"," ","p","r","o","c","e","s","s","i","n","g">>) @@
    (<<"c","v">> :> <<"c","o","m","p","u","t","e","r"," ","v","i","s","i","o","n">>) @@
    (<<"r","l">> :> <<"r","e","i","n","f","o","r","c","e","m","e","n","t"," ","l","e","a","r","n","i","n","g">>) @@
    (<<"g","a","n">> :> <<"g","e","n","e","r","a","t","i","v","e"," ","a","d","v","e","r","s","a","r","i","a","l"," ","n","e","t","w","o","r","k">>) @@
    (<<"g","a","n","s">> :> <<"g","e","n","e","r","a","t","i","v","e"," ","a","d","v","e","r","s","a","r","i","a","l"," ","n","e","t","w","o","r","k","s">>) @@
    (<<"r","n","n","s">> :> <<"r","e","c","u","r","r","e","n","t"," ","n","e","u","r","a","l"," ","n","e","t","w","o","r","k","s">>) @@
    (<<"c","n","n","s">> :> <<"c","o","n","v","o","l","u","t","i","o","n","a","l"," ","n","e","u","r","a","l"," ","n","e","t","w","o","r","k","s">>) @@
    (<<"t","r","a","n","s","f","o","r","m","e","r","s">> :> <<"t","r","a","n","s","f","o","r","m","e","r","s">>) @@
    (<<"a","p","i">> :> <<"a","p","i">>) @@ (<<"a","p","i","s">> :> <<"a","p","i","s">>) @@
    (<<"s","d","k">> :> <<"s","d","k">>) @@ (<<"s","d","k","s">> :> <<"s","d","k","s">>) @@
    (<<"c","l","i">> :> <<"c","l","i">>) @@ (<<"c","s","s">> :> <<"c","s","s">>) @@
    (<<"h","t","m","l">> :> <<"h","t","m","l">>) @@
    (<<"h","t","t","p">> :> <<"h","t","t","p">>) @@ (<<"u","r","l">> :> <<"u","r","l">>) @@
    (<<"j","s","o","n">> :> <<"j","s","o","n">>) @@ (<<"x","m","l">> :> <<"x","m","l">>) @@
    (<<"s","q","l">> :> <<"s","q","l">>) @@
    (<<"n","o","s","q","l">> :> <<"n","o","s","q","l">>) @@
    (<<"d","e","v","o","p","s">> :> <<"d","e","v","o","p","s">>) @@
    (<<"c","i">> :> <<"c","i"," ","c","d">>) @@ (<<"c","d">> :> <<"c","i"," ","c","d">>) @@
    (<<"c","r","y","p","t","o">> :> <<"c","r","y","p","t","o","c","u","r","r","e","n","c","y">>) @@
    (<<"d","e","f","i">> :> <<"d","e","f","i">>) @@ (<<"n","f","t">> :> <<"n","f","t">>) @@
    (<<"w","e","b","3">> :> <<"w","e","b","3">>) @@
    (<<"b","l","o","c","k","c","h","a","i","n">> :> <<"b","l","o","c","k","c","h","a","i","n">>) @@
    (<<"b","t","c">> :> <<"b","i","t","c","o","i","n">>) @@
    (<<"e","t","h">> :> <<"e","t","h","e","r","e","u","m">>) @@
    (<<"s","o","l">> :> <<"s","o","l","a","n","a">>) @@
    (<<"t","w","i","t","t","e","r">> :> <<"t","w","i","t","t","e","r">>) @@
    (<<"x">> :> <<"x">>) @@ (<<"g","i","t","h","u","b">> :> <<"g","i","t","h","u","b">>) @@
    (<<"g","i","t">> :> <<"g","i","t">>) @@ (<<"a","w","s">> :> <<"a","w","s">>) @@
    (<<"g","c","p">> :> <<"g","c","p">>) @@
    (<<"a","z","u","r","e">> :> <<"a","z","u","r","e">>) @@
    (<<"k","8","s">> :> <<"k","u","b","e","r","n","e","t","e","s">>) @@
    (<<"k","u","b","e","r","n","e","t","e","s">> :> <<"k","u","b","e","r","n","e","t","e","s">>) @@
    (<<"d","o","c","k","e","r">> :> <<"d","o","c","k","e","r">>) @@
    (<<"r","e","a","c","t">> :> <<"r","e","a","c","t">>) @@
    (<<"v","u","e">> :> <<"v","u","e">>) @@
    (<<"a","n","g","u","l","a","r">> :> <<"a","n","g","u","l","a","r">>) @@
    (<<"n","o","d","e">> :> <<"n","o","d","e","j","s">>) @@
    (<<"j","s">> :> <<"j","a","v","a","s","c","r","i","p","t">>) @@
    (<<"t","s">> :> <<"t","y","p","e","s","c","r","i","p","t">>) @@
    (<<"p","y">> :> <<"p","y","t","h","o","n">>) @@
    (<<"r","u","s","t">> :> <<"r","u","s","t">>) @@
    (<<"g","o">> :> <<"g","o","l","a","n","g">>) @@
    (<<"g","o","l","a","n","g">> :> <<"g","o","l","a","n","g">>) @@
    (<<"s","w","i","f","t">> :> <<"s","w","i","f","t">>) @@
    (<<"k","o","t","l","i","n">> :> <<"k","o","t","l","i","n">>) @@
    (<<"j","a","v","a">> :> <<"j","a","v","a">>)

HttpPrefix  == << "h","t","t","p",":","/","/" >>
HttpsPrefix == << "h","t","t","p","s",":","/","/" >>

\* text.replace(/https?:\/\/[^\s]+/g, "")
RECURSIVE RemoveUrls(_, _)
RemoveUrls(s, i) ==
  IF i > Len(s) THEN << >>
  ELSE LET p == IF MatchesAt(s, i, HttpsPrefix) THEN Len(HttpsPrefix)
                ELSE IF MatchesAt(s, i, HttpPrefix) THEN Len(HttpPrefix)
                ELSE 0
       IN  IF p > 0 /\ i + p <= Len(s) /\ ~IsSpace(s[i + p])
             THEN RemoveUrls(s, EndOfNonSpace(s, i + p))
             ELSE << s[i] >> \o RemoveUrls(s, i + 1)

\* cleaned.replace(/@\w+/g, "")
RECURSIVE RemoveMentions(_, _)
RemoveMentions(s, i) ==
  IF i > Len(s) THEN << >>
  ELSE IF s[i] = "@" /\ i + 1 <= Len(s) /\ IsWord(s[i + 1])
         THEN RemoveMentions(s, EndOfWord(s, i + 1))
         ELSE << s[i] >> \o RemoveMentions(s, i + 1)

\* cleaned.replace(/[^\w\s]/g, " ")
ReplaceSpecial(s) ==
  [ i \in DOMAIN s |-> IF IsWord(s[i]) \/ IsSpace(s[i]) THEN s[i] ELSE " " ]

\* s.split(/\s+/): the pieces between maximal runs of white space, the empty
\* piece before a leading run and after a trailing run included
RECURSIVE SplitSpace(_, _, _)
SplitSpace(s, i, cur) ==
  IF i > Len(s) THEN << cur >>
  ELSE IF IsSpace(s[i])
         THEN << cur >> \o SplitSpace(s, EndOfSpace(s, i), << >>)
         ELSE SplitSpace(s, i + 1, Append(cur, s[i]))

\* TOPIC_ALIASES[token] || token
Expand(token) ==
  IF token \in DOMAIN TOPIC_ALIASES THEN TOPIC_ALIASES[token] ELSE token

LongEnough(t) == Len(t) > 2

NotStopword(t) == t \notin STOPWORDS

Tokens(text) ==
  LET cleaned == ReplaceSpecial(RemoveMentions(RemoveUrls(text, 1), 1))
      pieces  == SplitSpace(ToLowerCase(cleaned), 1, << >>)
  IN  SelectSeq(SelectSeq(pieces, LongEnough), NotStopword)

\* the loop of extractKeywords: push each expanded token not seen before
extractKeywords(text) ==
  LET toks == Tokens(text)
  IN  Dedupe([ i \in DOMAIN toks |-> Expand(toks[i]) ])

-----------------------------------------------------------------------------
(* lib/api.ts: URL parsing and extractDomain                               *)

\* leading and trailing white space removed (the URL parser strips it)
RECURSIVE TrimEnd(_)
TrimEnd(s) ==
  IF s # << >> /\ IsSpace(s[Len(s)]) THEN TrimEnd(SubSeq(s, 1, Len(s) - 1)) ELSE s

Trim(s) == TrimEnd(From(s, EndOfSpace(s, 1)))

\* the first position >= i of s holding one of the characters in stop;
\* Len(s) + 1 when there is none
RECURSIVE IndexOfAny(_, _, _)
IndexOfAny(s, i, stop) ==
  IF i > Len(s) \/ s[i] \in stop THEN i ELSE IndexOfAny(s, i + 1, stop)

SpecialSchemes ==
  { << "h","t","t","p" >>, << "h","t","t","p","s" >>, << "f","t","p" >>,
    << "w","s" >>, << "w","s","s" >> }

\* the position after the leading run of "/" in s from i on
RECURSIVE SkipSlashes(_, _)
SkipSlashes(s, i) ==
  IF i <= Len(s) /\ s[i] \in { "/", "\\" } THEN SkipSlashes(s, i + 1) ELSE i

\* the authority without its userinfo ("user@") and its port (":8080")
HostOfAuthority(auth) ==
  LET at      == IndexOfAny(auth, 1, { "@" })
      noUser  == IF at <= Len(auth) THEN From(auth, at + 1) ELSE auth
      colon   == IndexOfAny(noUser, 1, { ":" })
  IN  SubSeq(noUser, 1, colon - 1)

\* new URL(url): [ok |-> FALSE] when the constructor throws a TypeError, and
\* otherwise the hostname of the parsed URL.  The subset modelled: a scheme,
\* an authority after "//", the host lower-cased for the special schemes and
\* kept as written for the others; no scheme, an empty host of a special
\* scheme and a host holding white space do not parse.
ParseURL(url) ==
  LET u       == Trim(url)
      colon   == IndexOfAny(u, 1, { ":" })
      scheme  == ToLowerCase(SubSeq(u, 1, colon - 1))
      schemeOk == /\ colon <= Len(u)
                  /\ colon > 1
                  /\ IsAlpha(u[1])
                  /\ \A i \in 1..(colon - 1) :
                        IsAlpha(u[i]) \/ u[i] \in DigitChars \/ u[i] \in { "+", "-", "." }
      special == scheme \in SpecialSchemes
      start   == IF special THEN SkipSlashes(u, colon + 1)
                 ELSE IF MatchesAt(u, colon + 1, << "/", "/" >>) THEN colon + 3
                 ELSE Len(u) + 1
      stop    == IndexOfAny(u, start, { "/", "\\", "?", "#" })
      host    == HostOfAuthority(SubSeq(u, start, stop - 1))
  IN  IF ~schemeOk THEN [ ok |-> FALSE, hostname |-> << >> ]
      ELSE IF \E i \in DOMAIN host : IsSpace(host[i])
        THEN [ ok |-> FALSE, hostname |-> << >> ]
      ELSE IF special /\ host = << >> THEN [ ok |-> FALSE, hostname |-> << >> ]
      ELSE [ ok |-> TRUE,
             hostname |-> IF special THEN ToLowerCase(host) ELSE host ]

WwwPrefix == << "w","w","w","." >>

\* extractDomain: the hostname without a leading "www.", "" when new URL throws
extractDomain(url) ==
  LET parsed == ParseURL(url)
  IN  IF ~parsed.ok THEN << >>
      ELSE IF MatchesAt(parsed.hostname, 1, WwwPrefix)
             THEN From(parsed.hostname, Len(WwwPrefix) + 1)
             ELSE parsed.hostname

\* Array.prototype.filter(Boolean) on strings: the empty string is falsy
Truthy(s) == s # << >>

\* parseTweets, for one tweet of the response: entities without an
\* expanded_url or a tag are dropped, a missing username becomes "?"
parseTweet(raw) ==
  [ id         |-> raw.id,
    text       |-> raw.text,
    username   |-> IF Truthy(raw.username) THEN raw.username ELSE << "?" >>,
    created_at |-> raw.created_at,
    urls       |-> SelectSeq(raw.urls, Truthy),
    hashtags   |-> SelectSeq(raw.hashtags, Truthy) ]

parseTweets(raws) == [ i \in DOMAIN raws |-> parseTweet(raws[i]) ]

-----------------------------------------------------------------------------
(* lib/keywords.ts: extractTopics, extractPrimaryTopic                     *)

SocialDomains ==
  { << "x",".","c","o","m" >>,
    << "t","w","i","t","t","e","r",".","c","o","m" >>,
    << "t",".","c","o" >> }

NotSocial(d) == d \notin SocialDomains

extractTopics(tweet) ==
  LET hashtags == [ i \in DOMAIN tweet.hashtags |-> ToLowerCase(tweet.hashtags[i]) ]
      resolved == [ i \in DOMAIN tweet.urls |-> extractDomain(tweet.urls[i]) ]
      domains  == SelectSeq(SelectSeq(resolved, Truthy), NotSocial)
      textKeywords == extractKeywords(tweet.text)
  IN  [ hashtags |-> hashtags,
        domains  |-> domains,
        keywords |-> textKeywords,
        all      |-> Dedupe(hashtags \o domains \o textKeywords) ]

Uncategorized == << "u","n","c","a","t","e","g","o","r","i","z","e","d" >>

\* extractPrimaryTopic with the keywords ranked before the hashtags
extractPrimaryTopicKeywordsFirst(t) ==
  IF Len(t.keywords) > 0 THEN t.keywords[1]
  ELSE IF Len(t.domains) > 0 THEN t.domains[1]
  ELSE IF Len(t.hashtags) > 0 THEN t.hashtags[1]
  ELSE Uncategorized

extractPrimaryTopic(t) ==
  IF Len(t.hashtags) > 0 THEN t.hashtags[1]
  ELSE IF Len(t.domains) > 0 THEN t.domains[1]
  ELSE IF Len(t.keywords) > 0 THEN t.keywords[1]
  ELSE Uncategorized

-----------------------------------------------------------------------------
(* Time and numbers                                                        *)

\* Number.NaN, the result of new Date(s).getTime() on an unparseable date;
\* every real time of the model is positive
NaN == -1

\* tweet.created_at of a tweet whose timestamp is missing or unparseable
InvalidDate == -1

\* new Date(created_at).getTime()
GetTime(created_at) == IF created_at = InvalidDate THEN NaN ELSE created_at

\* one unit of the fixed-point fractions: 1.0 is Micro
Micro == 1000 * 1000

\* Math.max(...xs) and Math.min(...xs): NaN as soon as one argument is NaN
RECURSIVE MaxOf(_)
MaxOf(xs) ==
  IF Len(xs) = 1 THEN xs[1]
  ELSE LET m == MaxOf(Tail(xs))
       IN  IF xs[1] = NaN \/ m = NaN THEN NaN
           ELSE IF xs[1] >= m THEN xs[1] ELSE m

RECURSIVE MinOf(_)
MinOf(xs) ==
  IF Len(xs) = 1 THEN xs[1]
  ELSE LET m == MinOf(Tail(xs))
       IN  IF xs[1] = NaN \/ m = NaN THEN NaN
           ELSE IF xs[1] <= m THEN xs[1] ELSE m

Min2(a, b) == IF a <= b THEN a ELSE b
Max2(a, b) == IF a >= b THEN a ELSE b

\* Array.prototype.sort((a, b) => b[1] - a[1]) on pairs <<item, key>>: by
\* descending key, equal keys keeping their order (the sort is stable)
RECURSIVE InsertDesc(_, _)
InsertDesc(sorted, p) ==
  IF sorted = << >> THEN << p >>
  ELSE IF sorted[Len(sorted)][2] >= p[2] THEN Append(sorted, p)
  ELSE Append(InsertDesc(SubSeq(sorted, 1, Len(sorted) - 1), p), sorted[Len(sorted)])

RECURSIVE SortDesc(_)
SortDesc(pairs) ==
  IF pairs = << >> THEN << >>
  ELSE InsertDesc(SortDesc(SubSeq(pairs, 1, Len(pairs) - 1)), pairs[Len(pairs)])

\* the flattening of a sequence of sequences
RECURSIVE Flatten(_)
Flatten(ss) == IF ss = << >> THEN << >> ELSE Head(ss) \o Flatten(Tail(ss))

\* the number of positions of seq holding x
Count(seq, x) == Cardinality({ i \in DOMAIN seq : seq[i] = x })

-----------------------------------------------------------------------------
(* lib/cluster.ts                                                          *)

parseBookmarks(tws) ==
  [ i \in DOMAIN tws |->
      LET t == extractTopics(tws[i])
      IN  [ id           |-> tws[i].id,
            tweet        |-> tws[i],
            topics       |-> t,
            primaryTopic |-> extractPrimaryTopic(t),
            savedAt      |-> GetTime(tws[i].created_at) ] ]

\* topic.toLowerCase().replace(/\s+/g, "-")
RECURSIVE ReplaceSpaceRuns(_, _)
ReplaceSpaceRuns(s, i) ==
  IF i > Len(s) THEN << >>
  ELSE IF IsSpace(s[i]) THEN << "-" >> \o ReplaceSpaceRuns(s, EndOfSpace(s, i))
  ELSE << s[i] >> \o ReplaceSpaceRuns(s, i + 1)

Slug(topic) == ReplaceSpaceRuns(ToLowerCase(topic), 1)

\* topic.split(/[-_]/)
RECURSIVE SplitDashes(_, _, _)
SplitDashes(s, i, cur) ==
  IF i > Len(s) THEN << cur >>
  ELSE IF s[i] \in { "-", "_" } THEN << cur >> \o SplitDashes(s, i + 1, << >>)
  ELSE SplitDashes(s, i + 1, Append(cur, s[i]))

\* word.charAt(0).toUpperCase() + word.slice(1)
Capitalize(word) ==
  IF word = << >> THEN << >> ELSE << ToUpperChar(word[1]) >> \o Tail(word)

\* words.join(" ")
RECURSIVE JoinSpace(_)
JoinSpace(words) ==
  IF Len(words) = 1 THEN words[1]
  ELSE words[1] \o << " " >> \o JoinSpace(Tail(words))

formatTopicName(topic) ==
  LET words == SplitDashes(topic, 1, << >>)
  IN  JoinSpace([ i \in DOMAIN words |-> Capitalize(words[i]) ])

\* bookmarks.filter((b) => cluster.bookmarkIds.includes(b.id))
MembersOf(cluster, bms) ==
  SelectSeq(bms, LAMBDA b : Has(cluster.bookmarkIds, b.id))

\* intersection / union of two topic sets with 1 for two empty sets
JaccardOneWhenEmpty(a, b) ==
  LET A == Range(a.topics.all)
      B == Range(b.topics.all)
  IN  IF Cardinality(A \cup B) > 0
        THEN (Cardinality(A \cap B) * Micro) \div Cardinality(A \cup B)
        ELSE Micro

\* intersection / union of two topic sets, 0 when the union is empty
Jaccard(a, b) ==
  LET A == Range(a.topics.all)
      B == Range(b.topics.all)
  IN  IF Cardinality(A \cup B) > 0
        THEN (Cardinality(A \cap B) * Micro) \div Cardinality(A \cup B)
        ELSE 0

RECURSIVE SumOver(_, _)
SumOver(f, S) ==
  IF S = {} THEN 0
  ELSE LET x == CHOOSE y \in S : TRUE IN f[x] + SumOver(f, S \ {x})

calculateCohesion(cluster, bms) ==
  LET cb    == MembersOf(cluster, bms)
      pairs == { p \in (DOMAIN cb) \X (DOMAIN cb) : p[1] < p[2] }
      total == SumOver([ p \in pairs |-> Jaccard(cb[p[1]], cb[p[2]]) ], pairs)
  IN  IF Len(cb) < 2 THEN Micro \div 2
      ELSE IF Cardinality(pairs) > 0 THEN total \div Cardinality(pairs) ELSE 0

\* the index in cs of the cluster stored under Map key topic, 0 if none
KeyIndex(cs, topic) ==
  IF \E i \in DOMAIN cs : cs[i].topic = topic
    THEN CHOOSE i \in DOMAIN cs : cs[i].topic = topic
    ELSE 0

\* one iteration of the grouping loop: the Map (in insertion order) after
\* bookmark b
AddToClusters(cs, b) ==
  LET k == KeyIndex(cs, b.primaryTopic)
  IN  IF k = 0
        THEN Append(cs, [ topic       |-> b.primaryTopic,
                          id          |-> Slug(b.primaryTopic),
                          name        |-> formatTopicName(b.primaryTopic),
                          keywords    |-> Range(b.topics.all),
                          domains     |-> Range(b.topics.domains),
                          authors     |-> { b.tweet.username },
                          bookmarkIds |-> << b.id >>,
                          cohesion    |-> 0 ])
        ELSE [ cs EXCEPT ![k] =
                 [ @ EXCEPT !.bookmarkIds = Append(@, b.id),
                            !.authors     = @ \cup { b.tweet.username },
                            !.keywords    = @ \cup Range(b.topics.all),
                            !.domains     = @ \cup Range(b.topics.domains) ] ]

RECURSIVE GroupByTopic(_)
GroupByTopic(bms) ==
  IF bms = << >> THEN << >>
  ELSE AddToClusters(GroupByTopic(SubSeq(bms, 1, Len(bms) - 1)), bms[Len(bms)])

\* the size filter off by one: a group one below the minimum is kept
BigEnoughOffByOne(c, minSize) == Len(c.bookmarkIds) + 1 >= minSize

\* the size filter with > for >=
BigEnoughStrict(c, minSize) == Len(c.bookmarkIds) > minSize

BigEnough(c, minSize) == Len(c.bookmarkIds) >= minSize

clusterByTopics(bms, minSize) ==
  LET grouped  == GroupByTopic(bms)
      filtered == SelectSeq(grouped, LAMBDA c : BigEnough(c, minSize))
      scored   == [ i \in DOMAIN filtered |->
                      [ filtered[i] EXCEPT !.cohesion = calculateCohesion(filtered[i], bms) ] ]
      sorted   == SortDesc([ i \in DOMAIN scored |-> << scored[i], Len(scored[i].bookmarkIds) >> ])
  IN  [ i \in DOMAIN sorted |-> sorted[i][1] ]

-----------------------------------------------------------------------------
(* lib/skill.ts: scoring                                                   *)

\* min(log2(n + 1) / log2(31), 1) * 30 in millionths, for n = 0 .. 30
CountScoreTable ==
  <<
     0, 6055473, 9597697, 12110945, 14060372, 15653170, 16999861, 18166418,
     19195394, 20115845, 20948493, 21708642, 22407911, 23055333, 23658069, 24221890,
     24751519, 25250867, 25723209, 26171317, 26597558, 27003966, 27392305, 27764115,
     28120744, 28463384, 28793091, 29110806, 29417371, 29713542, 30000000
  >>

\* exp(-d / 180) in millionths, for the day differences d the model's
\* timestamps and clock produce
DecayTable ==
     (-365 :> 7597185) @@ (-364 :> 7555095) @@ (-363 :> 7513239) @@ (-362 :> 7471615) @@ (-361 :> 7430221) @@
     (-360 :> 7389056) @@ (-359 :> 7348120) @@ (-358 :> 7307410) @@ (-357 :> 7266926) @@ (-356 :> 7226666) @@
     (-355 :> 7186629) @@ (-3 :> 1016806) @@ (-2 :> 1011173) @@ (-1 :> 1005571) @@ (0 :> 1000000) @@
     (1 :> 994460) @@ (2 :> 988950) @@ (3 :> 983471) @@ (4 :> 978023) @@ (5 :> 972604) @@
     (6 :> 967216) @@ (7 :> 961858) @@ (26 :> 865503) @@ (27 :> 860708) @@ (28 :> 855940) @@
     (29 :> 851197) @@ (30 :> 846482) @@ (31 :> 841792) @@ (32 :> 837128) @@ (33 :> 832491) @@
     (34 :> 827878) @@ (35 :> 823292) @@ (36 :> 818731) @@ (37 :> 814195) @@ (177 :> 374062) @@
     (178 :> 371990) @@ (179 :> 369929) @@ (180 :> 367879) @@ (181 :> 365841) @@ (182 :> 363815) @@
     (183 :> 361799) @@ (184 :> 359795) @@ (397 :> 110189) @@ (398 :> 109579) @@ (399 :> 108972) @@
     (400 :> 108368) @@ (401 :> 107768) @@ (402 :> 107171) @@ (403 :> 106577) @@ (404 :> 105986) @@
     (405 :> 105399) @@ (406 :> 104815) @@ (407 :> 104235)

\* the half-life of the recency score and the window of the recent-activity
\* bonus, in days
HalfLifeDays == 180
ThirtyDays == 30

\* Math.min(Math.log2(count + 1) / Math.log2(31), 1) * 30
CountScore(count) ==
  IF count >= Len(CountScoreTable) - 1 THEN CountScoreTable[Len(CountScoreTable)]
  ELSE CountScoreTable[count + 1]

\* Math.exp(-(now - latest) / halfLifeMs), in millionths
Decay(delta) == DecayTable[delta]

\* Math.round(x * 10^k): x in millionths to the nearest multiple of unit,
\* halves rounded up
RoundTo(x, unit) == (x + unit \div 2) \div unit

ExpertMin == 760
SpecialistMin == 510
PractitionerMin == 260

\* scoreToLevel with > for >= at each threshold
scoreToLevelStrict(score) ==
  IF score > ExpertMin THEN "Expert"
  ELSE IF score > SpecialistMin THEN "Specialist"
  ELSE IF score > PractitionerMin THEN "Practitioner"
  ELSE "Novice"

\* scoreToLevel; the score is in tenths of a point
scoreToLevel(score) ==
  IF score >= ExpertMin THEN "Expert"
  ELSE IF score >= SpecialistMin THEN "Specialist"
  ELSE IF score >= PractitionerMin THEN "Practitioner"
  ELSE "Novice"

\* the value of the variable confidence at line 272 of calculateConfidence,
\* before rounding and clamping, in millionths
ConfidenceSum(cluster, bms) ==
  LET base     == Micro \div 2
      byCount  == Min2((Len(bms) * Micro) \div 30, Micro \div 5)
      byCohesion == cluster.cohesion \div 5
      nAuthors == Cardinality(cluster.authors)
      byAuthors == IF nAuthors >= 3 THEN Micro \div 10
                   ELSE IF nAuthors = 1 THEN 0 - Micro \div 10 ELSE 0
      nDomains == Cardinality(cluster.domains)
      byDomains == IF nDomains >= 3 THEN Micro \div 10
                   ELSE IF nDomains = 1 THEN 0 - Micro \div 20 ELSE 0
  IN  base + byCount + byCohesion + byAuthors + byDomains

\* calculateConfidence without Math.max(0, Math.min(1, ...))
calculateConfidenceUnclamped(cluster, bms) ==
  RoundTo(ConfidenceSum(cluster, bms), Micro \div 100)

\* calculateConfidence, in hundredths
calculateConfidence(cluster, bms) ==
  Max2(0, Min2(100, RoundTo(ConfidenceSum(cluster, bms), Micro \div 100)))

\* the five sub-scores of calculateSkillScore, in millionths of a point
SubScores(cluster, bms, now) ==
  LET count  == Len(bms)
      latest == MaxOf([ i \in DOMAIN bms |-> bms[i].savedAt ])
      recent == Cardinality({ i \in DOMAIN bms :
                   bms[i].savedAt # NaN /\ now - bms[i].savedAt < ThirtyDays })
  IN  [ countScore   |-> CountScore(count),
        recencyScore |-> IF latest # NaN /\ latest # 0
                           THEN 25 * Decay(now - latest) ELSE 0,
        authorDiversityScore |->
            Min2((Cardinality(cluster.authors) * 20 * Micro) \div count, 20 * Micro),
        domainDiversityScore |->
            Min2((Cardinality(cluster.domains) * 20 * Micro) \div count, 20 * Micro),
        recentBonus  |-> IF recent > 0 THEN Min2((recent * Micro) \div 5, 5 * Micro)
                         ELSE 0 ]

\* Math.round(rawScore * 10) / 10, in tenths of a point
RoundScore(rawScore) == RoundTo(rawScore, Micro \div 10)

\* calculateSkillScore; now is the value Date.now() returned at line 198
calculateSkillScore(cluster, bms, now) ==
  LET s        == SubScores(cluster, bms, now)
      rawScore == s.countScore + s.recencyScore + s.authorDiversityScore
                    + s.domainDiversityScore + s.recentBonus
      score    == RoundScore(rawScore)
  IN  [ score      |-> score,
        level      |-> scoreToLevel(score),
        confidence |-> calculateConfidence(cluster, bms) ]

-----------------------------------------------------------------------------
(* lib/skill.ts: buildSkill                                                *)

\* an absent optional field (parentSkillId?: string)
Undefined == << "undefined" >>

XCom == << "x",".","c","o","m" >>

EvidenceCap == 20
TopKeywordsCap == 10
TopDomainsCap == 5

\* seq.slice(0, n)
Slice(seq, n) == SubSeq(seq, 1, Min2(n, Len(seq)))

\* the keys of the counting Map in insertion order, sorted by descending
\* count, the first cap of them
TopCounted(occurrences, cap) ==
  LET keys   == Dedupe(occurrences)
      sorted == SortDesc([ i \in DOMAIN keys |-> << keys[i], Count(occurrences, keys[i]) >> ])
  IN  Slice([ i \in DOMAIN sorted |-> sorted[i][1] ], cap)

\* whether new URL(b.tweet.urls[0]) at line 105 throws for bookmark b
EvidenceThrows(b) ==
  /\ Len(b.tweet.urls) > 0
  /\ Truthy(b.tweet.urls[1])
  /\ ~ParseURL(b.tweet.urls[1]).ok

\* the relevance of line 97: cluster keywords present among the bookmark's
\* topics over the cluster keyword count, in millionths; 0 / 0 is NaN
Relevance(cluster, b) ==
  LET present == Cardinality({ k \in cluster.keywords : Has(b.topics.all, k) })
      size    == Cardinality(cluster.keywords)
  IN  IF size = 0 THEN NaN ELSE (present * Micro) \div size

EvidenceOf(cluster, b) ==
  [ bookmarkId |-> b.id,
    author     |-> b.tweet.username,
    domain     |-> IF Len(b.tweet.urls) > 0 /\ Truthy(b.tweet.urls[1])
                     THEN ParseURL(b.tweet.urls[1]).hostname
                     ELSE XCom,
    addedAt    |-> b.savedAt,
    relevance  |-> Relevance(cluster, b) ]

\* whether buildSkill throws for this cluster
buildSkillThrows(cluster, bms) ==
  \E i \in DOMAIN bms : Has(cluster.bookmarkIds, bms[i].id) /\ EvidenceThrows(bms[i])

\* buildSkill; nowScore, nowCreated and nowUpdated are the values the three
\* calls of Date.now() returned (lines 198, 187, 188)
buildSkill(cluster, bms, nowScore, nowCreated, nowUpdated) ==
  LET cb          == MembersOf(cluster, bms)
      scoreResult == calculateSkillScore(cluster, cb, nowScore)
      evidence    == [ i \in DOMAIN cb |-> EvidenceOf(cluster, cb[i]) ]
      sorted      == SortDesc([ i \in DOMAIN evidence |->
                                  << evidence[i], evidence[i].relevance >> ])
      timestamps  == [ i \in DOMAIN cb |-> cb[i].savedAt ]
  IN  [ id            |-> cluster.id,
        name          |-> cluster.name,
        level         |-> scoreResult.level,
        score         |-> scoreResult.score,
        confidence    |-> scoreResult.confidence,
        bookmarkCount |-> Len(cluster.bookmarkIds),
        evidence      |-> Slice([ i \in DOMAIN sorted |-> sorted[i][1] ], EvidenceCap),
        parentSkillId |-> Undefined,
        childSkillIds |-> << >>,
        relatedSkillIds |-> << >>,
        topDomains    |-> TopCounted(Flatten([ i \in DOMAIN cb |-> cb[i].topics.domains ]),
                                     TopDomainsCap),
        topKeywords   |-> TopCounted(Flatten([ i \in DOMAIN cb |-> cb[i].topics.keywords ]),
                                     TopKeywordsCap),
        authors       |-> cluster.authors,
        dateRange     |-> [ earliest |-> MinOf(timestamps), latest |-> MaxOf(timestamps) ],
        createdAt     |-> nowCreated,
        updatedAt     |-> nowUpdated ]

-----------------------------------------------------------------------------
(* lib/skill.ts: buildSkillHierarchy                                       *)

\* keywordIndex.get(kw) || []: the positions of the skills whose top
\* keywords hold kw, one entry per occurrence, in skill order
KeywordIndex(sk, kw) ==
  Flatten([ i \in DOMAIN sk |->
              [ j \in 1..Count(sk[i].topKeywords, kw) |-> i ] ])

\* if (skill.parentSkillId): a non-empty string
HasParent(s) == s.parentSkillId # Undefined /\ s.parentSkillId # << >>

\* the parent test with >= for > on the keyword counts
AcceptsParentNonStrict(sk, i, p) ==
  /\ sk[p].id # sk[i].id
  /\ Len(sk[p].topKeywords) >= Len(sk[i].topKeywords)
  /\ 2 * Cardinality({ k \in DOMAIN sk[i].topKeywords :
                          Has(sk[p].topKeywords, sk[i].topKeywords[k]) })
       >= Len(sk[i].topKeywords)

\* the test of lines 628-634 for candidate sk[p] as a parent of sk[i]
AcceptsParent(sk, i, p) ==
  /\ sk[p].id # sk[i].id
  /\ Len(sk[p].topKeywords) > Len(sk[i].topKeywords)
  /\ 2 * Cardinality({ k \in DOMAIN sk[i].topKeywords :
                          Has(sk[p].topKeywords, sk[i].topKeywords[k]) })
       >= Len(sk[i].topKeywords)

\* lines 635-638: sk[i] gets parent sk[p], and sk[p] the child sk[i]
AssignParent(sk, i, p) ==
  LET withParent == [ sk EXCEPT ![i].parentSkillId = sk[p].id ]
  IN  IF Has(withParent[p].childSkillIds, sk[i].id) THEN withParent
      ELSE [ withParent EXCEPT ![p].childSkillIds = Append(@, sk[i].id) ]

\* the first position c' >= c of cands that is accepted as parent of sk[i];
\* 0 if none
RECURSIVE FirstAccepted(_, _, _, _)
FirstAccepted(sk, i, cands, c) ==
  IF c > Len(cands) THEN 0
  ELSE IF AcceptsParent(sk, i, cands[c]) THEN cands[c]
  ELSE FirstAccepted(sk, i, cands, c + 1)

\* the loop over parentKeywords for skill i, from keyword position a on
RECURSIVE ScanParentKeywords(_, _, _)
ScanParentKeywords(sk, i, a) ==
  IF a > (Len(sk[i].topKeywords) + 1) \div 2 THEN sk
  ELSE LET p     == FirstAccepted(sk, i, KeywordIndex(sk, sk[i].topKeywords[a]), 1)
           after == IF p = 0 THEN sk ELSE AssignParent(sk, i, p)
       IN  IF HasParent(after[i]) THEN after
           ELSE ScanParentKeywords(after, i, a + 1)

\* the loop of lines 621-646 from skill i on
RECURSIVE FindParents(_, _)
FindParents(sk, i) ==
  IF i > Len(sk) THEN sk ELSE FindParents(ScanParentKeywords(sk, i, 1), i + 1)

\* lines 649-659: a skill without parent gets every other skill with the
\* same parentSkillId pushed to relatedSkillIds
RelatedOf(sk, i) ==
  LET others == SelectSeq([ j \in DOMAIN sk |-> j ],
                          LAMBDA j : /\ sk[j].id # sk[i].id
                                     /\ sk[j].parentSkillId = sk[i].parentSkillId)
  IN  [ k \in DOMAIN others |-> sk[others[k]].id ]

RECURSIVE FindRelated(_, _)
FindRelated(sk, i) ==
  IF i > Len(sk) THEN sk
  ELSE FindRelated(
         IF HasParent(sk[i]) THEN sk
         ELSE [ sk EXCEPT ![i].relatedSkillIds = @ \o RelatedOf(sk, i) ],
         i + 1)

buildSkillHierarchy(sk) == FindRelated(FindParents(sk, 1), 1)

-----------------------------------------------------------------------------
(* Inputs                                                                  *)

\* the day the runs start on
Now0 == 20 * 1000

\* bounds of the model
MaxTweets == 3
MaxTicks == 1
MaxSignals == 2
MaxProbeScore == 1000
MaxSkills == 3

\* the default of the minClusterSize parameter
DefaultMinClusterSize == 3

Alice == <<"a","l","i","c","e">>
Bob   == <<"b","o","b">>
Carol == <<"c","a","r","o","l">>
Dave  == <<"d","a","v","e">>

RawTweet(id, username, text, created_at, hashtags, urls) ==
  [ id |-> id, username |-> username, text |-> text, created_at |-> created_at,
    hashtags |-> hashtags, urls |-> urls ]

\* the tweets the API may return for the bookmarks of the user
TweetPool ==
  << RawTweet(<<"1">>, Alice, <<"R","u","s","t"," ","t","o","k","i","o">>, Now0, << <<"R","u","s","t">> >>, << >>),
     RawTweet(<<"2">>, Bob, <<"r","u","s","t"," ","a","s","y","n","c"," ","t","o","k","i","o"," ","h","t","t","p","s",":","/","/","t",".","c","o","/","a","1">>, Now0 - 1, << <<"r","u","s","t">> >>,
              << <<"h","t","t","p","s",":","/","/","w","w","w",".","G","i","t","H","u","b",".","c","o","m","/","t","o","k","i","o","-","r","s","/","t","o","k","i","o">> >>),
     RawTweet(<<"3">>, Carol, << >>, Now0 - 29, << <<"r","u","s","t">> >>, << <<"n","o","t"," ","a"," ","u","r","l">> >>),
     RawTweet(<<"4">>, Bob, <<"g","o","l","a","n","g"," ","r","u","s","t"," ","t","o","k","i","o"," ","a","s","y","n","c">>, Now0 - 400, << <<"g","o","l","a","n","g">> >>,
              << <<"h","t","t","p","s",":","/","/","x",".","c","o","m","/","a","/","s","t","a","t","u","s","/","1">>, <<"h","t","t","p","s",":","/","/","g","o",".","d","e","v","/","d","o","c">> >>),
     RawTweet(<<"5">>, Alice, <<"g","o","l","a","n","g">>, InvalidDate, << <<"g","o","l","a","n","g">>, << >> >>, << >>),
     RawTweet(<<"6">>, Dave, <<"l","l","m"," ","a","g","e","n","t","s">>, Now0 - 30, << >>, << << >> >>),
     RawTweet(<<"7">>, << >>, <<"l","l","m">>, Now0 + 360, << <<"l","a","r","g","e","-","l","a","n","g","u","a","g","e","-","m","o","d","e","l">> >>, << >>),
     RawTweet(<<"8">>, Carol, <<"M","L"," ","i","s"," ","t","h","e"," ","@","b","o","b">>, Now0, << >>, << <<"h","t","t","p","s",":","/","/","t",".","c","o","/","z","z">> >>),
     RawTweet(<<"9">>, Dave, <<"r","u","s","t">>, Now0, << >>, << <<"h","t","t","p","s",":","/","/","d","o","c","s",".","r","s","/","t","o","k","i","o">> >>) >>

\* the sequences of at most n distinct positions of TweetPool
PoolSelections(n) ==
  { s \in UNION { [1..k -> DOMAIN TweetPool] : k \in 0..n } :
      \A i, j \in DOMAIN s : i # j => s[i] # s[j] }

NoLevel == "none"

-----------------------------------------------------------------------------
(* The pipeline: parseBookmarks, clusterByTopics, buildSkills,             *)
(* buildSkillHierarchy, called in this order by getSkills and by the       *)
(* import and refresh handlers (index.ts)                                  *)

Init ==
  /\ pc = "idle"
  /\ \E sel \in PoolSelections(MaxTweets) :
        tweets = parseTweets([ i \in DOMAIN sel |-> TweetPool[sel[i]] ])
  /\ minClusterSize = DefaultMinClusterSize
  /\ bookmarks = << >>
  /\ clusters = << >>
  /\ skills = << >>
  /\ clock = Now0
  /\ probeScore = 0
  /\ probeLevel = NoLevel
  /\ NoProbeCall
  /\ NoSearch
  /\ NoFiles
  /\ NoCalls

ParseBookmarks ==
  /\ pc = "idle"
  /\ bookmarks' = parseBookmarks(tweets)
  /\ pc' = "parsed"
  /\ UNCHANGED << tweets, minClusterSize, clusters, skills, clock, probeScore, probeLevel,
                  probeVars, searchVars,
                  fileVars, callVars >>

\* called on its own clusterByTopics takes any minClusterSize; the handlers
\* of index.ts call it with the default
ClusterByTopics ==
  /\ pc = "parsed"
  /\ \E m \in IF handler = "none" THEN 1..DefaultMinClusterSize
                                   ELSE { DefaultMinClusterSize } :
        /\ minClusterSize' = m
        /\ clusters' = clusterByTopics(bookmarks, m)
  /\ pc' = "clustered"
  /\ UNCHANGED << tweets, bookmarks, skills, clock, probeScore, probeLevel,
                  probeVars, searchVars,
                  fileVars, callVars >>

\* the values n successive calls of Date.now() may return, the clock
\* standing at c: non-decreasing, each tick of the clock falling before one
\* of the calls or after the last
ClockReadings(c, n) ==
  { [ j \in 1..n |-> c + Cardinality({ t \in DOMAIN at : at[t] <= j }) ] :
      at \in [ 1..(Now0 + MaxTicks - c) -> 1..(n + 1) ] }

\* buildSkills: clusters.map(buildSkill); the first buildSkill that throws
\* ends the call with no result
BuildSkills ==
  /\ pc = "clustered"
  /\ IF \E k \in DOMAIN clusters : buildSkillThrows(clusters[k], bookmarks)
       THEN /\ pc' = "threw"
            /\ UNCHANGED << skills, clock >>
       ELSE /\ \E r \in ClockReadings(clock, 3 * Len(clusters)) :
                 /\ skills' = [ k \in DOMAIN clusters |->
                                  buildSkill(clusters[k], bookmarks,
                                             r[3 * k - 2], r[3 * k - 1], r[3 * k]) ]
                 /\ clock' = IF Len(clusters) = 0 THEN clock ELSE r[3 * Len(clusters)]
            /\ pc' = "built"
  /\ UNCHANGED << tweets, minClusterSize, bookmarks, clusters, probeScore, probeLevel,
                  probeVars, searchVars,
                  fileVars, callVars >>

BuildSkillHierarchy ==
  /\ pc = "built"
  /\ skills' = buildSkillHierarchy(skills)
  /\ pc' = "done"
  /\ UNCHANGED << tweets, minClusterSize, bookmarks, clusters, clock, probeScore, probeLevel,
                  probeVars, searchVars,
                  fileVars, callVars >>

Next ==
  \/ ParseBookmarks
  \/ ClusterByTopics
  \/ BuildSkills
  \/ BuildSkillHierarchy

Spec == Init /\ [][Next]_vars

-----------------------------------------------------------------------------
(* The scenario of three rust posts by three authors                       *)

\* the link lists one post of the scenario may carry
RustUrlChoices ==
  { << >>,
    << <<"h","t","t","p","s",":","/","/","g","i","t","h","u","b",".","c","o","m","/","r","u","s","t","-","l","a","n","g","/","r","u","s","t">> >>,
    << <<"h","t","t","p","s",":","/","/","d","o","c","s",".","r","s","/","t","o","k","i","o">> >>,
    << <<"h","t","t","p","s",":","/","/","c","r","a","t","e","s",".","i","o","/","c","r","a","t","e","s","/","s","e","r","d","e">> >>,
    << <<"h","t","t","p","s",":","/","/","x",".","c","o","m","/","r","u","s","t","l","a","n","g","/","s","t","a","t","u","s","/","9">> >>,
    << <<"h","t","t","p","s",":","/","/","g","i","t","h","u","b",".","c","o","m","/","r","u","s","t","-","l","a","n","g","/","r","u","s","t">>, <<"h","t","t","p","s",":","/","/","c","r","a","t","e","s",".","i","o","/","c","r","a","t","e","s","/","s","e","r","d","e">> >> }

InitRust ==
  /\ pc = "idle"
  /\ \E u1, u2, u3 \in RustUrlChoices :
     \E d1, d2, d3 \in { Now0 - 1, Now0 } :
        tweets = parseTweets(
          << RawTweet(<<"1">>, Alice, <<"R","u","s","t"," ","t","o","k","i","o">>, d1, << <<"R","u","s","t">> >>, u1),
             RawTweet(<<"2">>, Bob, <<"a","s","y","n","c"," ","r","u","s","t">>, d2, << <<"r","u","s","t">>, <<"t","o","k","i","o">> >>, u2),
             RawTweet(<<"3">>, Carol, << >>, d3, << <<"R","U","S","T">> >>, u3) >>)
  /\ minClusterSize = DefaultMinClusterSize
  /\ bookmarks = << >>
  /\ clusters = << >>
  /\ skills = << >>
  /\ clock = Now0
  /\ probeScore = 0
  /\ probeLevel = NoLevel
  /\ NoProbeCall
  /\ NoSearch
  /\ NoFiles
  /\ NoCalls

SpecRust == InitRust /\ [][Next]_vars

-----------------------------------------------------------------------------
(* Topic extraction called on one post                                     *)

TagPool == { <<"R","u","s","t">>, <<"r","u","s","t">>, <<" ","R","u","s","t">>, << >> }

UrlPool ==
  { <<"h","t","t","p","s",":","/","/","w","w","w",".","G","i","t","H","u","b",".","c","o","m","/","t","o","k","i","o","-","r","s">>, <<"n","o","t"," ","a"," ","u","r","l">>, <<"h","t","t","p","s",":","/","/","x",".","c","o","m","/","a","/","s","t","a","t","u","s","/","1">>, << >>,
    <<"h","t","t","p","s",":","/","/","m","o","b","i","l","e",".","t","w","i","t","t","e","r",".","c","o","m","/","a","/","s","t","a","t","u","s","/","2">> }

TextPool ==
  { << >>, <<"M","L"," ","i","s"," ","f","u","n">>, <<"k","8","s"," ","r","o","c","k","s">>, <<"R","u","s","t"," ","a","n","d"," ","r","u","s","t"," ","h","t","t","p","s",":","/","/","t",".","c","o","/","a","b","c"," ","@","b","o","b">>,
    <<"K","u","b","e","r","n","e","t","e","s",","," ","k","8","s","!">>, <<" ","t","h","e"," ","a","n","d"," ","o","f"," ">>, <<"A","I","/","M","L",":"," ","l","l","m"," ","a","g","e","n","t","s">>, <<"g","o"," ","n","l","p">> }

\* texts made of one key of the alias table, alone and inside a sentence
AliasTexts ==
  { k : k \in DOMAIN TOPIC_ALIASES } \cup
  { <<"t","r","y"," ">> \o k \o <<" ","t","o","d","a","y">> : k \in DOMAIN TOPIC_ALIASES }

\* the sequences over S of length at most n
SeqsUpTo(S, n) == UNION { [1..k -> S] : k \in 0..n }

InitTopics ==
  /\ pc = "idle"
  /\ \/ \E tags \in SeqsUpTo(TagPool, MaxSignals), urls \in SeqsUpTo(UrlPool, MaxSignals),
           text \in TextPool :
           tweets = parseTweets(<< RawTweet(<<"1">>, Alice, text, Now0, tags, urls) >>)
     \/ \E text \in AliasTexts :
           tweets = parseTweets(<< RawTweet(<<"1">>, Alice, text, Now0, << >>, << >>) >>)
  /\ minClusterSize = DefaultMinClusterSize
  /\ bookmarks = << >>
  /\ clusters = << >>
  /\ skills = << >>
  /\ clock = Now0
  /\ probeScore = 0
  /\ probeLevel = NoLevel
  /\ NoProbeCall
  /\ NoSearch
  /\ NoFiles
  /\ NoCalls

SpecTopics == InitTopics /\ [][ParseBookmarks]_vars

-----------------------------------------------------------------------------
(* scoreToLevel called on every score of one decimal, beside the pipeline  *)

InitLevel ==
  \/ Init
  \/ /\ pc = "level"
     /\ probeScore \in 0..MaxProbeScore
     /\ probeLevel = NoLevel
     /\ NoProbeCall
     /\ NoSearch
     /\ NoFiles
     /\ NoCalls
     /\ tweets = << >>
     /\ minClusterSize = DefaultMinClusterSize
     /\ bookmarks = << >>
     /\ clusters = << >>
     /\ skills = << >>
     /\ clock = Now0

ScoreToLevel ==
  /\ pc = "level"
  /\ probeLevel' = scoreToLevel(probeScore)
  /\ pc' = "levelled"
  /\ UNCHANGED << tweets, minClusterSize, bookmarks, clusters, skills, clock, probeScore,
                  probeVars, searchVars,
                  fileVars, callVars >>

NextLevel == Next \/ ScoreToLevel

SpecLevel == InitLevel /\ [][NextLevel]_vars

-----------------------------------------------------------------------------
(* buildSkillHierarchy called on freshly built skill lists                 *)

IdPool == << <<"r","u","s","t">>, <<"t","o","k","i","o">>, <<"a","s","y","n","c","-","i","o">>, <<"w","e","b">> >>

\* the top-keyword lists the skills of a list are drawn from
KeywordLists ==
  { << >>, << <<"r","u","s","t">> >>, << <<"t","o","k","i","o">> >>, << <<"a","s","y","n","c">> >>,
    << <<"r","u","s","t">>, <<"t","o","k","i","o">> >>, << <<"t","o","k","i","o">>, <<"r","u","s","t">> >>, << <<"t","o","k","i","o">>, <<"a","s","y","n","c">> >>,
    << <<"r","u","s","t">>, <<"t","o","k","i","o">>, <<"a","s","y","n","c">> >>, << <<"a","s","y","n","c">>, <<"r","u","s","t">>, <<"t","o","k","i","o">> >> }

\* the assignments of ids to n skills, two skills of a list possibly sharing
\* their id; each new id is the next of IdPool
IdAssignments(n) ==
  { f \in [1..n -> 1..n] :
      \A i \in 1..n : \A v \in 1..(f[i] - 1) : \E j \in 1..(i - 1) : f[j] = v }

\* a skill as buildSkill returns it, reduced to the fields that
\* buildSkillHierarchy reads and writes
FreshSkill(id, topKeywords) ==
  [ id |-> id, topKeywords |-> topKeywords, parentSkillId |-> Undefined,
    childSkillIds |-> << >>, relatedSkillIds |-> << >> ]

InitHier ==
  /\ pc = "built"
  /\ \E n \in 0..MaxSkills :
     \E ids \in IdAssignments(n), kws \in [1..n -> KeywordLists] :
        skills = [ i \in 1..n |-> FreshSkill(IdPool[ids[i]], kws[i]) ]
  /\ tweets = << >>
  /\ minClusterSize = DefaultMinClusterSize
  /\ bookmarks = << >>
  /\ clusters = << >>
  /\ clock = Now0
  /\ probeScore = 0
  /\ probeLevel = NoLevel
  /\ NoProbeCall
  /\ NoSearch
  /\ NoFiles
  /\ NoCalls

SpecHier == InitHier /\ [][BuildSkillHierarchy]_vars

-----------------------------------------------------------------------------
(* Properties                                                              *)

Clustered == pc \in { "clustered", "built", "threw", "done" }

\* the number of bookmarks whose primary topic is that of bookmarks[i]
GroupSize(i) ==
  Cardinality({ j \in DOMAIN bookmarks :
                  bookmarks[j].primaryTopic = bookmarks[i].primaryTopic })

InSomeCluster(i) ==
  \E k \in DOMAIN clusters : Has(clusters[k].bookmarkIds, bookmarks[i].id)

InSomeSkill(i) ==
  \E s \in DOMAIN skills : \E e \in DOMAIN skills[s].evidence :
     skills[s].evidence[e].bookmarkId = bookmarks[i].id

ScoreWithinRange ==
  \A k \in DOMAIN skills : skills[k].score >= 0 /\ skills[k].score <= 1000

\* the bands of the claim, the score in tenths of a point
BandExact(score, level) ==
  /\ level = "Expert" <=> score >= 760
  /\ level = "Specialist" <=> (score >= 510 /\ score < 760)
  /\ level = "Practitioner" <=> (score >= 260 /\ score < 510)
  /\ level = "Novice" <=> score < 260

\* C3: scoreToLevel maps every score of one decimal to its band with
\* inclusive lower bounds 76, 51 and 26, and the level stored in a skill is
\* the level of its stored score.
LevelBoundaryExact ==
  /\ probeLevel # NoLevel => BandExact(probeScore, probeLevel)
  /\ \A k \in DOMAIN skills : BandExact(skills[k].score, skills[k].level)

\* scoreToLevel has answered for 25.9
LevelBoundaryExactWitness ==
  pc = "levelled" /\ probeScore = 259 /\ probeLevel = "Novice"

SingleNowPerRun ==
  pc \in { "built", "done" } =>
    \A i, j \in DOMAIN skills :
      /\ skills[i].createdAt = skills[i].updatedAt
      /\ skills[i].createdAt = skills[j].createdAt

\* the three posts were all created at most one day before the clock
AllWithinLastDay ==
  \A i \in DOMAIN bookmarks :
     bookmarks[i].savedAt <= clock /\ clock - bookmarks[i].savedAt <= 1

\* the part of the rust scenario that does not depend on the links
RustClusterFacts ==
  /\ Len(clusters) = 1
  /\ Len(skills) = 1
  /\ clusters[1].name = <<"R","u","s","t">>
  /\ skills[1].name = <<"R","u","s","t">>
  /\ clusters[1].cohesion > 0
  /\ SubScores(clusters[1], bookmarks, clock).authorDiversityScore = 20 * Micro

\* C6 as stated: three rust posts by three authors, created within the last
\* day, yield one cluster "Rust" with cohesion > 0 and author-diversity
\* score 20, and a skill of level Practitioner or Specialist.
RustScenarioAsStated ==
  (pc = "done" /\ AllWithinLastDay) =>
    /\ RustClusterFacts
    /\ skills[1].level \in { "Practitioner", "Specialist" }

\* C6 as amended: the same, with the level Specialist when the posts carry
\* fewer than three distinct link domains and Expert when they carry three
\* or more.
RustScenarioAmended ==
  (pc = "done" /\ AllWithinLastDay) =>
    /\ RustClusterFacts
    /\ skills[1].level \in { "Specialist", "Expert" }
    /\ skills[1].level = "Expert" <=> Cardinality(clusters[1].domains) >= 3

\* the scenario with three distinct link domains
RustScenarioWitness ==
  /\ pc = "done"
  /\ AllWithinLastDay
  /\ Cardinality(clusters[1].domains) >= 3
  /\ skills[1].level = "Expert"

HasMalformedUrl ==
  \E i \in DOMAIN tweets : \E u \in DOMAIN tweets[i].urls :
     ~ParseURL(tweets[i].urls[u]).ok

\* C7: a malformed link URL in a post never makes the pipeline throw.
MalformedUrlNeverThrows == HasMalformedUrl => pc # "threw"

WellFormedEntry(s) ==
  /\ s # << >>
  /\ s = ToLowerCase(s)
  /\ ~IsSpace(s[1])
  /\ ~IsSpace(s[Len(s)])

\* C8: every entry of the hashtags, domains, keywords and 'all' lists of
\* extractTopics is lowercase, non-empty and trimmed.
TopicEntriesNormalised ==
  pc = "parsed" =>
    \A i \in DOMAIN bookmarks :
      \A e \in Range(bookmarks[i].topics.hashtags) \cup Range(bookmarks[i].topics.domains)
                 \cup Range(bookmarks[i].topics.keywords) \cup Range(bookmarks[i].topics.all) :
         WellFormedEntry(e)

\* C9: a post whose text holds a key of the alias table as a token gets the
\* key's alias value as a keyword.
AliasesExpanded ==
  pc = "parsed" =>
    \A i \in DOMAIN bookmarks : \A k \in DOMAIN TOPIC_ALIASES :
       Has(SplitSpace(bookmarks[i].tweet.text, 1, << >>), k)
         => Has(bookmarks[i].topics.keywords, TOPIC_ALIASES[k])

\* C10: the primary topic of every bookmark is non-empty and is the first
\* hashtag if there is one, else the first domain, else the first keyword,
\* else "uncategorized".
PrimaryTopicByPriority ==
  pc = "parsed" =>
    \A i \in DOMAIN bookmarks :
      LET t == bookmarks[i].topics
          p == bookmarks[i].primaryTopic
      IN  /\ p # << >>
          /\ t.hashtags # << >> => p = t.hashtags[1]
          /\ (t.hashtags = << >> /\ t.domains # << >>) => p = t.domains[1]
          /\ (t.hashtags = << >> /\ t.domains = << >> /\ t.keywords # << >>)
                => p = t.keywords[1]
          /\ (t.hashtags = << >> /\ t.domains = << >> /\ t.keywords = << >>)
                => p = <<"u","n","c","a","t","e","g","o","r","i","z","e","d">>

\* a bookmark without hashtag whose primary topic is its first domain,
\* although it has keywords
PrimaryTopicByPriorityWitness ==
  /\ pc = "parsed"
  /\ \E i \in DOMAIN bookmarks :
        /\ bookmarks[i].topics.hashtags = << >>
        /\ bookmarks[i].topics.domains # << >>
        /\ bookmarks[i].topics.keywords # << >>
        /\ bookmarks[i].primaryTopic = bookmarks[i].topics.domains[1]

\* C11: the relevance of every evidence item of every built skill is a
\* number in [0, 1] (0 .. Micro millionths), also for a cluster whose
\* keyword set is empty.
RelevanceWithinUnit ==
  \A s \in DOMAIN skills : \A e \in DOMAIN skills[s].evidence :
     /\ skills[s].evidence[e].relevance >= 0
     /\ skills[s].evidence[e].relevance <= Micro

-----------------------------------------------------------------------------
(* The pipeline on posts with few or no topic signals                      *)

\* posts of one hashtag with different shares of the cluster's keywords, and
\* posts from which no hashtag, domain or keyword survives
EvidencePool ==
  << RawTweet(<<"1","1">>, Alice, <<"M","L"," ","i","s"," ","t","h","e"," ","@","b","o","b">>, Now0, << >>, << <<"h","t","t","p","s",":","/","/","t",".","c","o","/","z","z">> >>),
     RawTweet(<<"1","2">>, Bob, << >>, Now0 - 1, << >>, << >>),
     RawTweet(<<"1","3">>, Dave, <<"i","s"," ","i","t">>, Now0 - 2, << >>, << <<"h","t","t","p","s",":","/","/","x",".","c","o","m","/","a","/","s","t","a","t","u","s","/","1">> >>),
     RawTweet(<<"1","4">>, Carol, << >>, Now0, << <<"r","u","s","t">> >>, << >>),
     RawTweet(<<"1","5">>, Alice, <<"t","o","k","i","o">>, Now0 - 1, << <<"r","u","s","t">> >>, << >>),
     RawTweet(<<"1","6">>, Bob, <<"r","u","s","t"," ","t","o","k","i","o"," ","a","s","y","n","c">>, Now0 - 2, << <<"r","u","s","t">> >>, << <<"h","t","t","p","s",":","/","/","g","i","t","h","u","b",".","c","o","m","/","t","o","k","i","o","-","r","s","/","t","o","k","i","o">> >>) >>

InitEvidence ==
  /\ pc = "idle"
  /\ \E sel \in { s \in UNION { [1..k -> DOMAIN EvidencePool] : k \in 0..MaxTweets } :
                    \A i, j \in DOMAIN s : i # j => s[i] # s[j] } :
        tweets = parseTweets([ i \in DOMAIN sel |-> EvidencePool[sel[i]] ])
  /\ minClusterSize = DefaultMinClusterSize
  /\ bookmarks = << >>
  /\ clusters = << >>
  /\ skills = << >>
  /\ clock = Now0
  /\ probeScore = 0
  /\ probeLevel = NoLevel
  /\ NoProbeCall
  /\ NoSearch
  /\ NoFiles
  /\ NoCalls

SpecEvidence == InitEvidence /\ [][Next]_vars

\* a >= b on JavaScript numbers: false when either is NaN
NumberGeq(a, b) == a # NaN /\ b # NaN /\ a >= b

\* C12: the evidence list of every skill has at most 20 items and is sorted
\* by relevance in non-increasing order.
EvidenceSortedAndCapped ==
  \A s \in DOMAIN skills :
     /\ Len(skills[s].evidence) <= 20
     /\ \A e \in 1..(Len(skills[s].evidence) - 1) :
           NumberGeq(skills[s].evidence[e].relevance, skills[s].evidence[e + 1].relevance)

-----------------------------------------------------------------------------
(* calculateConfidence called on clusters of every shape                   *)

MaxMembers == 8
MaxSetSize == 4
CohesionSteps == 20

\* a cluster of the given cohesion with a authors and d domains
ShapedCluster(cohesion, a, d) ==
  [ cohesion |-> cohesion, authors |-> 1..a, domains |-> 1..d ]

InitConfidence ==
  \/ InitEvidence
  \/ /\ pc = "confidence"
     /\ \E n \in 0..MaxMembers, c \in 0..CohesionSteps, a, d \in 0..MaxSetSize :
           probeIn = [ cluster |-> ShapedCluster((c * Micro) \div CohesionSteps, a, d),
                       bookmarks |-> [ i \in 1..n |-> i ] ]
     /\ probeOut = NoProbe
     /\ tweets = << >>
     /\ minClusterSize = DefaultMinClusterSize
     /\ bookmarks = << >>
     /\ clusters = << >>
     /\ skills = << >>
     /\ clock = Now0
     /\ probeScore = 0
     /\ probeLevel = NoLevel
     /\ NoSearch
     /\ NoFiles
     /\ NoCalls

CalculateConfidence ==
  /\ pc = "confidence"
  /\ probeOut' = calculateConfidence(probeIn.cluster, probeIn.bookmarks)
  /\ pc' = "confident"
  /\ UNCHANGED << tweets, minClusterSize, bookmarks, clusters, skills, clock,
                  probeScore, probeLevel, probeIn, searchVars,
                  fileVars, callVars >>

NextConfidence == Next \/ CalculateConfidence

SpecConfidence == InitConfidence /\ [][NextConfidence]_vars

\* C13: calculateConfidence returns a value in [0, 1] (0 .. 100 hundredths)
\* for every member count, every cohesion in [0, 1] and all sizes of the
\* author and domain sets, and so does the confidence of every built skill.
ConfidenceWithinUnit ==
  /\ pc = "confident" => (probeOut >= 0 /\ probeOut <= 100)
  /\ \A s \in DOMAIN skills : skills[s].confidence >= 0 /\ skills[s].confidence <= 100

\* a cluster whose adjustments add up to 1.1: the result is 1
ConfidenceWithinUnitWitness ==
  /\ pc = "confident"
  /\ Len(probeIn.bookmarks) >= 6
  /\ probeIn.cluster.cohesion = Micro
  /\ Cardinality(probeIn.cluster.authors) >= 3
  /\ Cardinality(probeIn.cluster.domains) >= 3
  /\ probeOut = 100

\* the positions in bookmarks of the members of clusters[k]
MemberPositions(k) ==
  { i \in DOMAIN bookmarks : Has(clusters[k].bookmarkIds, bookmarks[i].id) }

\* the unordered pairs of members of clusters[k]
MemberPairs(k) ==
  { p \in MemberPositions(k) \X MemberPositions(k) : p[1] < p[2] }

\* the topic signals of the bookmark at position i, as a set
SignalsOf(i) == { bookmarks[i].topics.all[j] : j \in DOMAIN bookmarks[i].topics.all }

\* what the pair p adds to the sum of similarities, in millionths
PairSimilarity(p) ==
  LET union == SignalsOf(p[1]) \cup SignalsOf(p[2])
  IN  IF union = {} THEN 0
      ELSE (Cardinality(SignalsOf(p[1]) \cap SignalsOf(p[2])) * Micro) \div Cardinality(union)

RECURSIVE SumOfSimilarities(_)
SumOfSimilarities(pairs) ==
  IF pairs = {} THEN 0
  ELSE LET p == CHOOSE q \in pairs : TRUE
       IN  PairSimilarity(p) + SumOfSimilarities(pairs \ {p})

\* C14: the cohesion of every cluster lies in [0, 1] and, times the number
\* of unordered member pairs, is the sum over the pairs of the Jaccard
\* similarity of their topic signals (up to the rounding of the division),
\* a pair with an empty union adding 0.
CohesionIsMeanJaccard ==
  Clustered =>
    \A k \in DOMAIN clusters :
      LET n   == Cardinality(MemberPairs(k))
          sum == SumOfSimilarities(MemberPairs(k))
          c   == clusters[k].cohesion
      IN  /\ c >= 0 /\ c <= Micro
          /\ c * n <= sum
          /\ sum < (c + 1) * n \/ n = 0

\* a cluster of posts without any topic signal: every union is empty
CohesionOfEmptySignalsWitness ==
  /\ pc = "clustered"
  /\ \E k \in DOMAIN clusters :
        /\ Cardinality(MemberPairs(k)) >= 1
        /\ \A i \in MemberPositions(k) : SignalsOf(i) = {}
        /\ clusters[k].cohesion = 0

\* whether s ends with the characters of t
EndsWith(s, t) == Len(s) >= Len(t) /\ SubSeq(s, Len(s) - Len(t) + 1, Len(s)) = t

\* a host of one of the social platforms: the platform's domain or a host
\* under it
IsSocialHost(h) ==
  \E a \in { <<"x",".","c","o","m">>, <<"t","w","i","t","t","e","r",".","c","o","m">>, <<"t",".","c","o">> } : h = a \/ EndsWith(h, <<".">> \o a)

\* C15: every entry of the domain list of extractTopics is the hostname of
\* one of the post's links with a leading www. stripped, and none is a host
\* of x.com, twitter.com or t.co.
DomainsExcludeSocialHosts ==
  pc = "parsed" =>
    \A i \in DOMAIN bookmarks :
      \A d \in DOMAIN bookmarks[i].topics.domains :
        LET entry == bookmarks[i].topics.domains[d]
        IN  /\ \E u \in DOMAIN bookmarks[i].tweet.urls :
                 LET parsed == ParseURL(bookmarks[i].tweet.urls[u])
                 IN  /\ parsed.ok
                     /\ \/ entry = parsed.hostname
                        \/ <<"w","w","w",".">> \o entry = parsed.hostname
            /\ ~IsSocialHost(entry)

\* a post without a parseable creation timestamp or without text
IsMalformedPost(i) ==
  bookmarks[i].savedAt = NaN \/ bookmarks[i].tweet.text = << >>

\* C16: a malformed post (unparseable creation timestamp, or empty text) is
\* skipped: it is a member of no cluster and of no skill's evidence, and the
\* date range of every skill consists of timestamps.
MalformedPostsSkipped ==
  Clustered =>
    /\ \A i \in DOMAIN bookmarks :
          IsMalformedPost(i) => ~InSomeCluster(i) /\ ~InSomeSkill(i)
    /\ \A s \in DOMAIN skills :
          skills[s].dateRange.earliest # NaN /\ skills[s].dateRange.latest # NaN

-----------------------------------------------------------------------------
(* lib/skill.ts: extractActionable                                         *)

\* String.prototype.includes
Includes(s, p) == \E i \in 1..(Len(s) + 1) : MatchesAt(s, i, p)

\* Object.entries(ACTIONABLE_DOMAINS), in insertion order
ACTIONABLE_DOMAINS ==
  << << <<"g","i","t","h","u","b",".","c","o","m">>, "repo" >>, << <<"g","i","t","l","a","b",".","c","o","m">>, "repo" >>, << <<"b","i","t","b","u","c","k","e","t",".","o","r","g">>, "repo" >>,
     << <<"n","p","m","j","s",".","c","o","m">>, "package" >>, << <<"p","y","p","i",".","o","r","g">>, "package" >>, << <<"c","r","a","t","e","s",".","i","o">>, "package" >>,
     << <<"h","u","b",".","d","o","c","k","e","r",".","c","o","m">>, "docker" >>, << <<"d","o","c","k","e","r">>, "docker" >>,
     << <<"v","e","r","c","e","l",".","c","o","m">>, "tool" >>, << <<"n","e","t","l","i","f","y",".","c","o","m">>, "tool" >>, << <<"c","l","o","u","d","f","l","a","r","e",".","c","o","m">>, "tool" >>,
     << <<"a","w","s",".","a","m","a","z","o","n",".","c","o","m">>, "tool" >>, << <<"c","l","o","u","d",".","g","o","o","g","l","e",".","c","o","m">>, "tool" >>,
     << <<"a","z","u","r","e",".","m","i","c","r","o","s","o","f","t",".","c","o","m">>, "tool" >>, << <<"h","e","r","o","k","u",".","c","o","m">>, "tool" >>, << <<"l","i","n","e","a","r",".","a","p","p">>, "tool" >>,
     << <<"n","o","t","i","o","n",".","s","o">>, "tool" >>, << <<"f","i","g","m","a",".","c","o","m">>, "tool" >>,
     << <<"r","e","a","d","m","e",".","i","o">>, "docs" >>, << <<"g","i","t","b","o","o","k",".","i","o">>, "docs" >>, << <<"m","k","d","o","c","s",".","o","r","g">>, "docs" >>,
     << <<"r","e","a","d","t","h","e","d","o","c","s",".","o","r","g">>, "docs" >>,
     << <<"m","e","d","i","u","m",".","c","o","m">>, "post" >>, << <<"d","e","v",".","t","o">>, "post" >>, << <<"b","l","o","g",".">>, "post" >>,
     << <<"n","e","w","s",".">>, "post" >>, << <<"s","u","b","s","t","a","c","k",".","c","o","m">>, "post" >>,
     << <<"y","o","u","t","u","b","e",".","c","o","m">>, "video" >>, << <<"l","o","o","m",".","c","o","m">>, "video" >>, << <<"l","i","n","k","e","d","i","n",".","c","o","m">>, "post" >>,
     << <<"c","r","u","n","c","h","b","a","s","e",".","c","o","m">>, "job" >>, << <<"r","e","m","o","t","e","o","k",".","c","o","m">>, "job" >>,
     << <<"w","e","w","o","r","k","r","e","m","o","t","e","l","y",".","c","o","m">>, "job" >>, << <<"j","o","b","s",".">>, "job" >>, << <<"c","a","r","e","e","r","s",".">>, "job" >> >>

\* lines 503-511: the action of the first entry whose domain occurs in the
\* lower-cased url, 'post' when there is none
TypeOfUrl(url) ==
  LET urlLower == ToLowerCase(url)
      hits     == { k \in DOMAIN ACTIONABLE_DOMAINS : Includes(urlLower, ACTIONABLE_DOMAINS[k][1]) }
  IN  IF hits = {} THEN "post"
      ELSE ACTIONABLE_DOMAINS[CHOOSE k \in hits : \A h \in hits : k <= h][2]

getActionText(type) ==
  CASE type = "repo"    -> "clone/test"
    [] type = "package" -> "install/evaluate"
    [] type = "docker"  -> "run/deploy"
    [] type = "tool"    -> "evaluate/integrate"
    [] type = "docs"    -> "read/learn"
    [] type = "post"    -> "review/understand"
    [] type = "video"   -> "watch/learn"
    [] type = "job"     -> "apply/explore"
    [] OTHER            -> "explore"

\* the switch of lines 520-538: the bucket an item of this type is pushed
\* to, "none" for a type without a case
BucketOfType(type) ==
  CASE type = "repo"                      -> "repos"
    [] type \in { "package", "docker" }   -> "tools"
    [] type = "docs"                      -> "docs"
    [] type \in { "video", "post" }       -> "posts"
    [] type = "job"                       -> "jobs"
    [] OTHER                              -> "none"

TitleCap == 100

\* lines 513-518
ActionableItem(e) ==
  [ url    |-> e.url,
    title  |-> Slice(e.title, TitleCap),
    action |-> getActionText(TypeOfUrl(e.url)),
    domain |-> e.domain ]

\* line 500 without the test of the seen set
SkipsOnlyEmptyUrl(e, seen) == ~Truthy(e.url)

\* line 500: if (!e.url || seen.has(e.url)) continue
Skips(e, seen) == ~Truthy(e.url) \/ e.url \in seen

\* the loop of lines 499-541 from evidence[i] on
RECURSIVE ExtractFrom(_, _, _, _)
ExtractFrom(evidence, i, seen, actionable) ==
  IF i > Len(evidence) THEN actionable
  ELSE IF Skips(evidence[i], seen) THEN ExtractFrom(evidence, i + 1, seen, actionable)
  ELSE LET bucket == BucketOfType(TypeOfUrl(evidence[i].url))
           pushed == IF bucket = "none" THEN actionable
                     ELSE [ actionable EXCEPT
                              ![bucket] = Append(@, ActionableItem(evidence[i])) ]
       IN  ExtractFrom(evidence, i + 1, seen \cup { evidence[i].url }, pushed)

extractActionable(evidence) ==
  ExtractFrom(evidence, 1, {},
              [ repos |-> << >>, tools |-> << >>, docs |-> << >>,
                posts |-> << >>, jobs |-> << >> ])

-----------------------------------------------------------------------------
(* extractActionable called on evidence lists                              *)

MaxEvidence == 3

\* the urls of the evidence items: links of every type, an absent url, and
\* the url of a post on x.com, which is what buildSkill stores; the title of
\* an item tells its position in the list
EvidenceUrlPool ==
  { << >>, <<"h","t","t","p","s",":","/","/","x",".","c","o","m","/","a","l","i","c","e","/","s","t","a","t","u","s","/","1">>, <<"h","t","t","p","s",":","/","/","g","i","t","h","u","b",".","c","o","m","/","t","o","k","i","o","-","r","s","/","t","o","k","i","o">>,
    <<"h","t","t","p","s",":","/","/","G","i","t","H","u","b",".","c","o","m","/","t","o","k","i","o","-","r","s","/","t","o","k","i","o">>, <<"h","t","t","p","s",":","/","/","c","r","a","t","e","s",".","i","o","/","c","r","a","t","e","s","/","s","e","r","d","e">>,
    <<"h","t","t","p","s",":","/","/","v","e","r","c","e","l",".","c","o","m","/","d","o","c","s">>, <<"h","t","t","p","s",":","/","/","d","o","c","s",".","r","e","a","d","m","e",".","i","o","/","g","u","i","d","e">>,
    <<"h","t","t","p","s",":","/","/","j","o","b","s",".","g","i","t","h","u","b",".","c","o","m","/","p","o","s","i","t","i","o","n","s">> }


InitActionable ==
  /\ pc = "evidence"
  /\ \E n \in 0..MaxEvidence :
     \E urls \in [ 1..n -> EvidenceUrlPool ] :
        probeIn = [ i \in 1..n |->
                      [ url |-> urls[i], title |-> [ k \in 1..i |-> "t" ],
                        domain |-> XCom ] ]
  /\ probeOut = NoProbe
  /\ tweets = << >>
  /\ minClusterSize = DefaultMinClusterSize
  /\ bookmarks = << >>
  /\ clusters = << >>
  /\ skills = << >>
  /\ clock = Now0
  /\ probeScore = 0
  /\ probeLevel = NoLevel
  /\ NoSearch
  /\ NoFiles
  /\ NoCalls

ExtractActionable ==
  /\ pc = "evidence"
  /\ probeOut' = extractActionable(probeIn)
  /\ pc' = "extracted"
  /\ UNCHANGED << tweets, minClusterSize, bookmarks, clusters, skills, clock,
                  probeScore, probeLevel, probeIn, searchVars,
                  fileVars, callVars >>

SpecActionable == InitActionable /\ [][ExtractActionable]_vars

\* the items of all five buckets, one bucket after the other
AllBuckets(a) == a.repos \o a.tools \o a.docs \o a.posts \o a.jobs

\* C17: in the result of extractActionable no url appears in two buckets
\* and none appears twice in one bucket, and every item carries the url of
\* an evidence item.
EachUrlInOneBucket ==
  pc = "extracted" =>
    LET all == AllBuckets(probeOut)
    IN  /\ \A i, j \in DOMAIN all : i # j => all[i].url # all[j].url
        /\ \A i \in DOMAIN all : \E e \in DOMAIN probeIn : probeIn[e].url = all[i].url

\* two evidence items share a url, which is in the result
EachUrlInOneBucketWitness ==
  /\ pc = "extracted"
  /\ \E i, j \in DOMAIN probeIn :
        /\ i < j
        /\ probeIn[i].url = probeIn[j].url
        /\ probeIn[i].title # probeIn[j].title
        /\ \E k \in DOMAIN probeOut.repos : probeOut.repos[k].url = probeIn[i].url

-----------------------------------------------------------------------------
(* api.ts: searchTweets and its cache.  In this part one unit of the clock *)
(* is five minutes.                                                        *)

DefaultTtl == 3
QuickTtl == 12

MaxSearches == 2
MaxSearchTicks == 13

\* the since option: absent, a span back from now ("7d", in clock units),
\* or an ISO date
SincePool ==
  { [ kind |-> "absent",   span |-> 0,           time |-> 0 ],
    [ kind |-> "relative", span |-> 7 * 24 * 12, time |-> 0 ],
    [ kind |-> "absolute", span |-> 0,           time |-> Now0 - 100 ] }

\* parseSince; now is what Date.now() returns at line 301; the result is the
\* time the ISO string denotes
parseSince(since, now) ==
  IF since.kind = "relative" THEN now - since.span ELSE since.time

\* the cache key of lines 330-335 and 257-263: the query and the params
\* string, which holds sort, pages, the start time (or "7d" when no since is
\* given) and quick
CacheKey(query, since, quick, now) ==
  [ query |-> query, sort |-> "relevancy", pages |-> 1,
    since |-> IF since.kind = "absent" THEN [ text |-> "7d", time |-> 0 ]
              ELSE [ text |-> "iso", time |-> parseSince(since, now) ],
    quick |-> quick ]

\* getCachedSearch, lines 269-278: whether the entry under key exists and
\* has not expired at now
IsCached(key, now) ==
  /\ key \in DOMAIN cache
  /\ ~(now - cache[key].timestamp > cache[key].ttl)

\* searchTweets with pages = 1: on a miss one request is sent, the response
\* (the tweets matching at that time) arrives took units later and is stored
\* with the time and the ttl of the call
SearchTweets ==
  /\ pc = "search"
  /\ Len(searches) < MaxSearches
  /\ \E since \in SincePool, quick \in BOOLEAN, took \in 0..1 :
        LET key == CacheKey(<<"r","u","s","t">>, since, quick, clock)
            ttl == IF quick THEN QuickTtl ELSE DefaultTtl
            hit == IsCached(key, clock)
            response == << clock >>
            entry == [ timestamp |-> clock + took, ttl |-> ttl, tweets |-> response ]
            others == { k \in DOMAIN cache : k # key }
        IN  /\ clock + took <= Now0 + MaxSearchTicks
            /\ cache' = IF hit THEN cache
                        ELSE [ k \in others \cup { key } |->
                                 IF k = key THEN entry ELSE cache[k] ]
            /\ requests' = IF hit THEN requests ELSE requests + 1
            /\ clock' = IF hit THEN clock ELSE clock + took
            /\ searches' = Append(searches,
                 [ since |-> since, quick |-> quick, at |-> clock,
                   requested |-> IF hit THEN 0 ELSE 1,
                   returned |-> IF hit THEN cache[key].tweets ELSE response ])
  /\ UNCHANGED << pc, tweets, minClusterSize, bookmarks, clusters, skills,
                  probeScore, probeLevel, probeVars, fileVars, callVars >>

\* time passes between two calls
Tick ==
  /\ pc = "search"
  /\ clock < Now0 + MaxSearchTicks
  /\ clock' = clock + 1
  /\ UNCHANGED << pc, tweets, minClusterSize, bookmarks, clusters, skills,
                  probeScore, probeLevel, probeVars, searchVars,
                  fileVars, callVars >>

InitSearch ==
  /\ pc = "search"
  /\ tweets = << >>
  /\ minClusterSize = DefaultMinClusterSize
  /\ bookmarks = << >>
  /\ clusters = << >>
  /\ skills = << >>
  /\ clock = Now0
  /\ probeScore = 0
  /\ probeLevel = NoLevel
  /\ NoProbeCall
  /\ NoSearch
  /\ NoFiles
  /\ NoCalls

NextSearch == SearchTweets \/ Tick

SpecSearch == InitSearch /\ [][NextSearch]_vars

\* the time to live of the results of the call c, in clock units:
\* 15 minutes, 1 hour in quick mode
TtlOfCall(c) == IF c.quick THEN 12 ELSE 3

SameOptions(c, d) == c.since = d.since /\ c.quick = d.quick

\* C18: when searchTweets is called twice with the same query and options
\* and the second call comes within the time to live of the first, which
\* sent requests, the second sends none and returns the tweets of the
\* first; a call with no earlier call of the same options within the time
\* to live sends requests.
SecondSearchWithinTtlIsCached ==
  /\ \A i, j \in DOMAIN searches :
        ( /\ i < j
          /\ SameOptions(searches[i], searches[j])
          /\ searches[i].requested > 0
          /\ searches[j].at - searches[i].at <= TtlOfCall(searches[i]) )
        => /\ searches[j].requested = 0
           /\ searches[j].returned = searches[i].returned
  /\ \A j \in DOMAIN searches :
        ( \A i \in 1..(j - 1) :
             SameOptions(searches[i], searches[j])
               => searches[j].at - searches[i].at > TtlOfCall(searches[i]) + 1 )
        => searches[j].requested > 0

\* whether skills[p] qualifies as parent of skills[i]: a different skill
\* with strictly more top keywords that holds at least half of the top
\* keywords of skills[i]
QualifiesAsParent(i, p) ==
  /\ p # i
  /\ Len(skills[p].topKeywords) > Len(skills[i].topKeywords)
  /\ 2 * Cardinality({ k \in DOMAIN skills[i].topKeywords :
                         \E m \in DOMAIN skills[p].topKeywords :
                            skills[p].topKeywords[m] = skills[i].topKeywords[k] })
       >= Len(skills[i].topKeywords)

\* the qualifying candidates of skills[i] met when scanning keyword a of its
\* first ceil(k/2) top keywords
CandidatesAt(i, a) ==
  { p \in DOMAIN skills :
      /\ \E m \in DOMAIN skills[p].topKeywords :
            skills[p].topKeywords[m] = skills[i].topKeywords[a]
      /\ QualifiesAsParent(i, p) }

\* the first qualifying candidate in keyword-then-skill-list order, 0 if
\* there is none
FirstCandidate(i) ==
  LET half  == (Len(skills[i].topKeywords) + 1) \div 2
      where == { a \in 1..half : CandidatesAt(i, a) # {} }
  IN  IF where = {} THEN 0
      ELSE LET a == CHOOSE x \in where : \A y \in where : x <= y
           IN  CHOOSE p \in CandidatesAt(i, a) : \A q \in CandidatesAt(i, a) : p <= q

\* C19: after buildSkillHierarchy the parent of every skill is the first
\* qualifying candidate in keyword-then-skill-list order, and a skill has
\* no parent iff no candidate qualifies.
ParentIsFirstCandidate ==
  pc = "done" =>
    \A i \in DOMAIN skills :
       IF FirstCandidate(i) = 0 THEN skills[i].parentSkillId = Undefined
       ELSE skills[i].parentSkillId = skills[FirstCandidate(i)].id

IsParentless(i) == skills[i].parentSkillId = Undefined

\* how often the id x occurs in the sequence of ids s
Occurrences(s, x) == Cardinality({ k \in DOMAIN s : s[k] = x })

\* C20: after buildSkillHierarchy the relatedSkillIds of every parentless
\* skill holds the id of every other parentless skill, once for each of
\* them, and nothing else; a skill with a parent has no related ids.
ParentlessAreMutuallyRelated ==
  pc = "done" =>
    \A i \in DOMAIN skills :
       IF IsParentless(i)
         THEN /\ \A j \in DOMAIN skills :
                    (j # i /\ IsParentless(j)) =>
                       Occurrences(skills[i].relatedSkillIds, skills[j].id)
                         = Cardinality({ m \in DOMAIN skills :
                                           m # i /\ IsParentless(m) /\ skills[m].id = skills[j].id })
              /\ \A k \in DOMAIN skills[i].relatedSkillIds :
                    \E j \in DOMAIN skills :
                       j # i /\ IsParentless(j) /\ skills[j].id = skills[i].relatedSkillIds[k]
         ELSE skills[i].relatedSkillIds = << >>

-----------------------------------------------------------------------------
(* Identifiers and display names of clusters                               *)

\* C22: no two clusters returned by clusterByTopics and no two skills
\* returned by buildSkills share an id, and two bookmarks whose primary
\* topics slugify to the same id are members of the same cluster.
IdsAreUnique ==
  Clustered =>
    /\ \A i, j \in DOMAIN clusters : i # j => clusters[i].id # clusters[j].id
    /\ \A i, j \in DOMAIN skills : i # j => skills[i].id # skills[j].id
    /\ \A i, j \in DOMAIN bookmarks :
          ( /\ Slug(bookmarks[i].primaryTopic) = Slug(bookmarks[j].primaryTopic)
            /\ InSomeCluster(i) /\ InSomeCluster(j) ) =>
          \E k \in DOMAIN clusters :
             /\ Has(clusters[k].bookmarkIds, bookmarks[i].id)
             /\ Has(clusters[k].bookmarkIds, bookmarks[j].id)

\* the words of a display name: its maximal runs of non-space characters
WordStarts(name) ==
  { i \in DOMAIN name : ~IsSpace(name[i]) /\ (i = 1 \/ IsSpace(name[i - 1])) }

\* C23: every word of the display name of a cluster starts with an
\* upper-case letter wherever the topic has a letter there, and the name
\* has no separator '-' or '_' left.
NameWordsCapitalized ==
  Clustered =>
    \A k \in DOMAIN clusters :
       /\ \A i \in WordStarts(clusters[k].name) : ~IsLower(clusters[k].name[i])
       /\ \A i \in DOMAIN clusters[k].name : clusters[k].name[i] \notin { "-", "_" }

-----------------------------------------------------------------------------
(* Consistency of the parent and child links                               *)

\* the positions of the skills whose id is the parentSkillId of skills[a]
ParentPositions(a) ==
  { b \in DOMAIN skills : skills[b].id = skills[a].parentSkillId }

\* the positions reached from the set S by following parentSkillId links
\* at most n times
RECURSIVE Ancestors(_, _)
Ancestors(S, n) ==
  IF n = 0 THEN S
  ELSE Ancestors(S \cup UNION { ParentPositions(a) : a \in S }, n - 1)

\* C24: after buildSkillHierarchy skill A has parentSkillId = B.id iff A.id
\* occurs in B.childSkillIds, it occurs there at most once, every skill has
\* at most one parent, and no skill is among its own ancestors.
ParentChildConsistent ==
  pc = "done" =>
    /\ \A a, b \in DOMAIN skills :
          /\ (skills[a].parentSkillId = skills[b].id)
               <=> Has(skills[b].childSkillIds, skills[a].id)
          /\ Occurrences(skills[b].childSkillIds, skills[a].id) <= 1
    /\ \A a \in DOMAIN skills :
          /\ Cardinality(ParentPositions(a)) <= 1
          /\ a \notin Ancestors(ParentPositions(a), Len(skills))

\* the distinct non-empty urls of the evidence handed to extractActionable
EvidenceUrls == { probeIn[e].url : e \in { k \in DOMAIN probeIn : Truthy(probeIn[k].url) } }

\* C25: extractActionable loses no url: every distinct non-empty evidence
\* url is the url of an item of one of the five buckets, and the number of
\* items over the five buckets is the number of such urls.
NoUrlLost ==
  pc = "extracted" =>
    LET all == AllBuckets(probeOut)
    IN  /\ \A u \in EvidenceUrls : \E i \in DOMAIN all : all[i].url = u
        /\ Len(all) = Cardinality(EvidenceUrls)

-----------------------------------------------------------------------------
(* index.ts: the commands and request handlers that read and write         *)
(* bookmarks.json and skills.json.  A handler that computes skills runs    *)
(* the pipeline on its own locals (tweets, bookmarks, clusters, skills);   *)
(* after the awaited fetch its code is synchronous, so no other handler    *)
(* runs between its start and its end.                                     *)

AppPost(id, tag, text) == RawTweet(id, Alice, text, Now0, << tag >>, << >>)

RustPosts ==
  << AppPost(<<"2","1">>, <<"r","u","s","t">>, <<"t","o","k","i","o">>),
     AppPost(<<"2","2">>, <<"r","u","s","t">>, <<"t","o","k","i","o">>),
     AppPost(<<"2","3">>, <<"r","u","s","t">>, << >>) >>

WebPosts ==
  << AppPost(<<"3","1">>, <<"w","e","b">>, <<"c","s","s">>),
     AppPost(<<"3","2">>, <<"w","e","b">>, <<"c","s","s">>),
     AppPost(<<"3","3">>, <<"w","e","b">>, << >>) >>

\* the bookmark lists the X API may return to fetchBookmarks: none, two
\* posts of one topic, three, three of each of two topics, and three posts
\* one of which carries a malformed link
BookmarkLists ==
  { parseTweets(raws) :
      raws \in { << >>, SubSeq(RustPosts, 1, 2), RustPosts, RustPosts \o WebPosts,
                 << TweetPool[1], TweetPool[2], TweetPool[3] >> } }

\* JSON.parse(JSON.stringify(x)) of a number: NaN is written as null
JsonNull == -2
JsonNumber(x) == IF x = NaN THEN JsonNull ELSE x

\* JSON.parse(JSON.stringify(skills)): the skills as read back from
\* skills.json; an undefined parentSkillId is left out on writing and
\* undefined again on reading
JsonSkills(sk) ==
  [ i \in DOMAIN sk |->
      [ sk[i] EXCEPT
          !.score = JsonNumber(@),
          !.confidence = JsonNumber(@),
          !.dateRange = [ earliest |-> JsonNumber(@.earliest), latest |-> JsonNumber(@.latest) ],
          !.evidence = [ e \in DOMAIN @ |->
                           [ @[e] EXCEPT !.relevance = JsonNumber(@),
                                         !.addedAt = JsonNumber(@) ] ] ] ]

\* readFileSync(SKILLS_FILE).skills (index.ts line 424)
LoadSkillsAndRelink(file) == buildSkillHierarchy(file.skills)
LoadSkills(file) == file.skills

\* getBookmarks: the cached list, or else a fresh one that is not stored
GetBookmarks == IF bookmarksFile.exists THEN { bookmarksFile.tweets } ELSE BookmarkLists

\* a handler starts the pipeline on tws with fresh locals
StartPipeline(name, tws) ==
  /\ handler' = name
  /\ tweets' = tws
  /\ bookmarks' = << >>
  /\ clusters' = << >>
  /\ skills' = << >>
  /\ pc' = "idle"

\* cmdImport: without --force a non-empty cached list is returned as it is;
\* otherwise the fetched list is written to bookmarks.json
CmdImport ==
  /\ handler = "none"
  /\ pc \in { "ready", "replied" }
  /\ \E force \in BOOLEAN, fetched \in BookmarkLists :
        bookmarksFile' =
          IF ~force /\ bookmarksFile.exists /\ Len(bookmarksFile.tweets) > 0
            THEN bookmarksFile
            ELSE [ exists |-> TRUE, tweets |-> fetched ]
  /\ pc' = "ready"
  /\ UNCHANGED << tweets, minClusterSize, bookmarks, clusters, skills, clock,
                  probeScore, probeLevel, probeVars, searchVars,
                  skillsFile, schedule, ignoredKeywords, callVars >>

\* getSkills when skills.json exists (the skills, skill, analytics and
\* export commands and the GET routes)
GetSkillsCached ==
  /\ handler = "none"
  /\ pc \in { "ready", "replied" }
  /\ skillsFile.exists
  /\ reply' = LoadSkills(skillsFile)
  /\ pc' = "replied"
  /\ UNCHANGED << tweets, minClusterSize, bookmarks, clusters, skills, clock,
                  probeScore, probeLevel, probeVars, searchVars,
                  fileVars, handler, fetch >>

\* getSkills when there is no skills.json
GetSkillsStart ==
  /\ handler = "none"
  /\ pc \in { "ready", "replied" }
  /\ ~skillsFile.exists
  /\ \E tws \in GetBookmarks : StartPipeline("getSkills", tws)
  /\ UNCHANGED << minClusterSize, clock, probeScore, probeLevel, probeVars, searchVars,
                  fileVars, reply, fetch >>

\* POST /api/import, from the arrival of the fetched tweets
ApiImportStart ==
  /\ handler = "none"
  /\ pc \in { "ready", "replied" }
  /\ \E tws \in BookmarkLists : StartPipeline("import", tws)
  /\ UNCHANGED << minClusterSize, clock, probeScore, probeLevel, probeVars, searchVars,
                  fileVars, reply, fetch >>

\* POST /api/refresh
ApiRefreshStart ==
  /\ handler = "none"
  /\ pc \in { "ready", "replied" }
  /\ \E tws \in GetBookmarks : StartPipeline("refresh", tws)
  /\ UNCHANGED << minClusterSize, clock, probeScore, probeLevel, probeVars, searchVars,
                  fileVars, reply, fetch >>

\* the end of a handler after buildSkillHierarchy: the files are written
\* and getSkills returns its skills
HandlerEnds ==
  /\ handler # "none"
  /\ pc = "done"
  /\ skillsFile' = [ exists |-> TRUE, skills |-> JsonSkills(skills) ]
  /\ bookmarksFile' = IF handler = "import"
                        THEN [ exists |-> TRUE, tweets |-> tweets ]
                        ELSE bookmarksFile
  /\ reply' = IF handler = "getSkills" THEN skills ELSE reply
  /\ pc' = IF handler = "getSkills" THEN "replied" ELSE "ready"
  /\ handler' = "none"
  /\ UNCHANGED << tweets, minClusterSize, bookmarks, clusters, skills, clock,
                  probeScore, probeLevel, probeVars, searchVars,
                  schedule, ignoredKeywords, fetch >>

\* buildSkills threw: the request is answered with status 500, the command
\* ends, and no file is written
HandlerFails ==
  /\ handler # "none"
  /\ pc = "threw"
  /\ handler' = "none"
  /\ pc' = "ready"
  /\ UNCHANGED << tweets, minClusterSize, bookmarks, clusters, skills, clock,
                  probeScore, probeLevel, probeVars, searchVars,
                  fileVars, reply, fetch >>

\* the data directory is empty; the run falls within one day
InitApp ==
  /\ pc = "ready"
  /\ tweets = << >>
  /\ minClusterSize = DefaultMinClusterSize
  /\ bookmarks = << >>
  /\ clusters = << >>
  /\ skills = << >>
  /\ clock = Now0 + MaxTicks
  /\ probeScore = 0
  /\ probeLevel = NoLevel
  /\ NoProbeCall
  /\ NoSearch
  /\ NoFiles
  /\ NoCalls

NextApp ==
  \/ CmdImport
  \/ GetSkillsCached
  \/ GetSkillsStart
  \/ ApiImportStart
  \/ ApiRefreshStart
  \/ ParseBookmarks
  \/ ClusterByTopics
  \/ BuildSkills
  \/ BuildSkillHierarchy
  \/ HandlerEnds
  \/ HandlerFails

SpecApp == InitApp /\ [][NextApp]_vars


\* the skills of a list with their hierarchy fields as buildSkill leaves them
WithoutHierarchy(sk) ==
  [ i \in DOMAIN sk |->
      [ sk[i] EXCEPT !.parentSkillId = Undefined, !.childSkillIds = << >>,
                     !.relatedSkillIds = << >> ] ]

\* the hierarchy fields of the list are those of one buildSkillHierarchy pass
\* over the list as built
LinkedOnce(sk) == sk = buildSkillHierarchy(WithoutHierarchy(sk))

\* C21: in every handler the hierarchy pass starts on a list that holds one
\* skill per cluster, none of them carrying hierarchy fields yet, and every
\* list that carries hierarchy fields (the handler's list after the pass,
\* the content of skills.json, the list getSkills returned) carries those
\* of exactly one pass.
HierarchyFilledOnce ==
  /\ (handler # "none" /\ pc = "built") =>
        /\ Len(skills) = Len(clusters)
        /\ skills = WithoutHierarchy(skills)
  /\ (handler # "none" /\ pc = "done") =>
        /\ Len(skills) = Len(clusters)
        /\ LinkedOnce(skills)
  /\ skillsFile.exists => LinkedOnce(skillsFile.skills)
  /\ LinkedOnce(reply)

\* getSkills returned two related skills from skills.json
HierarchyFilledOnceWitness ==
  /\ pc = "replied"
  /\ skillsFile.exists
  /\ reply = skillsFile.skills
  /\ Len(reply) = 2
  /\ \A i \in DOMAIN reply : Len(reply[i].relatedSkillIds) = 1


\* whether the pipeline throws on the tweets tws
PipelineThrows(tws) ==
  LET bms == parseBookmarks(tws)
      cs  == clusterByTopics(bms, DefaultMinClusterSize)
  IN  \E k \in DOMAIN cs : buildSkillThrows(cs[k], bms)

\* the skills the pipeline of the handlers computes from the tweets tws on
\* the day now
ComputeSkills(tws, now) ==
  LET bms == parseBookmarks(tws)
      cs  == clusterByTopics(bms, DefaultMinClusterSize)
  IN  buildSkillHierarchy([ k \in DOMAIN cs |-> buildSkill(cs[k], bms, now, now, now) ])

\* C26: between two handlers, when bookmarks.json holds a list the pipeline
\* accepts, the content of skills.json and the skills getSkills has just
\* returned are the pipeline's result on that list.
SkillsMatchBookmarks ==
  (handler = "none" /\ bookmarksFile.exists /\ ~PipelineThrows(bookmarksFile.tweets)) =>
     LET fresh == JsonSkills(ComputeSkills(bookmarksFile.tweets, clock))
     IN  /\ skillsFile.exists => skillsFile.skills = fresh
         /\ pc = "replied" => JsonSkills(reply) = fresh

-----------------------------------------------------------------------------
(* The import schedule (schedule.json).  Times are whole days, as in the   *)
(* pipeline: the two intervals of the code are 1 and 7 days.               *)

DailyInterval == 1
WeeklyInterval == 7

MaxScheduleDays == 8

\* calculateNextRun with the daily interval for every frequency
calculateNextRunDaily(frequency, fromTime) == fromTime + DailyInterval

calculateNextRun(frequency, fromTime) ==
  fromTime + (IF frequency = "daily" THEN DailyInterval ELSE WeeklyInterval)

setSchedule(frequency, now) ==
  [ enabled |-> TRUE, frequency |-> frequency,
    nextRunAt |-> calculateNextRun(frequency, now),
    lastRunAt |-> NullTime, createdAt |-> now ]

shouldRun(config, now) ==
  IF ~config.enabled THEN FALSE ELSE now >= config.nextRunAt

recordRun(config, now) ==
  IF ~config.enabled THEN config
  ELSE [ config EXCEPT !.lastRunAt = now,
                       !.nextRunAt = calculateNextRun(config.frequency, now) ]

cancelSchedule(config) == [ config EXCEPT !.enabled = FALSE ]

\* what the schedule steps leave alone; probeOut holds the answer of
\* shouldRun as long as neither the schedule nor the clock has changed
ScheduleFrame(answer) ==
  /\ probeOut' = answer
  /\ UNCHANGED << pc, tweets, minClusterSize, bookmarks, clusters, skills,
                  probeScore, probeLevel, probeIn, searchVars,
                  bookmarksFile, skillsFile, ignoredKeywords, callVars >>

SetSchedule ==
  /\ pc = "schedule"
  /\ \E frequency \in { "daily", "weekly" } :
        schedule' = setSchedule(frequency, clock)
  /\ UNCHANGED clock
  /\ ScheduleFrame(NoProbe)

ShouldRun ==
  /\ pc = "schedule"
  /\ UNCHANGED << schedule, clock >>
  /\ ScheduleFrame(IF shouldRun(schedule, clock) THEN "true" ELSE "false")

RecordRun ==
  /\ pc = "schedule"
  /\ schedule' = recordRun(schedule, clock)
  /\ UNCHANGED clock
  /\ ScheduleFrame(NoProbe)

CancelSchedule ==
  /\ pc = "schedule"
  /\ schedule' = cancelSchedule(schedule)
  /\ UNCHANGED clock
  /\ ScheduleFrame(NoProbe)

\* a day passes between two calls
DayPasses ==
  /\ pc = "schedule"
  /\ clock < Now0 + MaxScheduleDays
  /\ clock' = clock + 1
  /\ UNCHANGED schedule
  /\ ScheduleFrame(NoProbe)

InitSchedule ==
  /\ pc = "schedule"
  /\ tweets = << >>
  /\ minClusterSize = DefaultMinClusterSize
  /\ bookmarks = << >>
  /\ clusters = << >>
  /\ skills = << >>
  /\ clock = Now0
  /\ probeScore = 0
  /\ probeLevel = NoLevel
  /\ NoProbeCall
  /\ NoSearch
  /\ NoFiles
  /\ NoCalls

NextSchedule ==
  \/ SetSchedule
  \/ ShouldRun
  \/ RecordRun
  \/ CancelSchedule
  \/ DayPasses

SpecSchedule == InitSchedule /\ [][NextSchedule]_vars

\* the interval of a frequency in days: 24 hours daily, 7 days weekly
IntervalOf(frequency) == IF frequency = "weekly" THEN 7 ELSE 1

\* the time of the latest setSchedule or recordRun that took effect
LatestStart(config) ==
  IF config.lastRunAt # NullTime THEN config.lastRunAt ELSE config.createdAt

\* in every state: an enabled schedule is due one interval after its latest
\* setSchedule or recordRun, and shouldRun has answered true only for an
\* enabled schedule that is due
TimerState ==
  /\ schedule.enabled =>
        schedule.nextRunAt = LatestStart(schedule) + IntervalOf(schedule.frequency)
  /\ probeOut # NoProbe =>
        ((probeOut = "true") <=>
           (schedule.enabled /\ clock >= LatestStart(schedule) + IntervalOf(schedule.frequency)))

\* in every step: nextRunAt changes only to the time of the call plus the
\* interval, and a cancelled schedule changes only by being enabled again
TimerStep ==
  /\ schedule'.nextRunAt # schedule.nextRunAt =>
        /\ schedule'.enabled
        /\ schedule'.nextRunAt = clock + IntervalOf(schedule'.frequency)
        /\ LatestStart(schedule') = clock
  /\ (~schedule.enabled /\ schedule' # schedule) =>
        /\ schedule'.enabled
        /\ schedule'.lastRunAt = NullTime
        /\ schedule'.createdAt = clock

\* C27: shouldRun is true only when the schedule is enabled and the time is
\* at or after nextRunAt, nextRunAt being the time of the latest setSchedule
\* or recordRun plus the interval of the frequency; after cancelSchedule
\* shouldRun is false and the stored schedule stays as it is until
\* setSchedule is called again.
ScheduleIsTimer == []TimerState /\ [][TimerStep]_vars

\* a weekly schedule that ran once is due again seven days after that run,
\* and shouldRun has said so
ScheduleIsTimerWitness ==
  /\ schedule.enabled
  /\ schedule.frequency = "weekly"
  /\ schedule.lastRunAt # NullTime
  /\ schedule.lastRunAt > schedule.createdAt
  /\ clock = schedule.lastRunAt + 7
  /\ probeOut = "true"

-----------------------------------------------------------------------------
(* lib/manager.ts: the ignored keywords of skill-manager.json              *)

MaxIgnored == 4

\* the keywords the caller may pass
KeywordInputs ==
  { <<"R","u","s","t">>, <<"r","u","s","t">>, <<"R","U","S","T">>, <<"g","o">>, <<"G","o">> }

addIgnoredKeyword(list, keyword) ==
  IF ~Has(list, keyword) THEN Append(list, ToLowerCase(keyword)) ELSE list

removeIgnoredKeyword(list, keyword) ==
  SelectSeq(list, LAMBDA k : k # ToLowerCase(keyword))

\* probeIn holds the call, probeOut the list before it
ManagerFrame(call) ==
  /\ probeIn' = call
  /\ probeOut' = ignoredKeywords
  /\ UNCHANGED << pc, tweets, minClusterSize, bookmarks, clusters, skills, clock,
                  probeScore, probeLevel, searchVars,
                  bookmarksFile, skillsFile, schedule, callVars >>

AddIgnoredKeyword ==
  /\ pc = "manager"
  /\ \E keyword \in KeywordInputs :
        /\ Len(addIgnoredKeyword(ignoredKeywords, keyword)) <= MaxIgnored
        /\ ignoredKeywords' = addIgnoredKeyword(ignoredKeywords, keyword)
        /\ ManagerFrame([ op |-> "add", keyword |-> keyword ])

RemoveIgnoredKeyword ==
  /\ pc = "manager"
  /\ \E keyword \in KeywordInputs :
        /\ ignoredKeywords' = removeIgnoredKeyword(ignoredKeywords, keyword)
        /\ ManagerFrame([ op |-> "remove", keyword |-> keyword ])

InitManager ==
  /\ pc = "manager"
  /\ tweets = << >>
  /\ minClusterSize = DefaultMinClusterSize
  /\ bookmarks = << >>
  /\ clusters = << >>
  /\ skills = << >>
  /\ clock = Now0
  /\ probeScore = 0
  /\ probeLevel = NoLevel
  /\ probeIn = [ op |-> "none", keyword |-> << >> ]
  /\ probeOut = << >>
  /\ NoSearch
  /\ NoFiles
  /\ NoCalls

NextManager == AddIgnoredKeyword \/ RemoveIgnoredKeyword

SpecManager == InitManager /\ [][NextManager]_vars

\* C28: the ignored-keyword list holds each keyword at most once and in
\* lower case, adding a keyword that the list already holds in any letter
\* case leaves the list as it is, and after removeIgnoredKeyword(k) no case
\* variant of k is in the list.
IgnoredKeywordsNormalised ==
  pc = "manager" =>
    /\ \A i, j \in DOMAIN ignoredKeywords : i # j => ignoredKeywords[i] # ignoredKeywords[j]
    /\ \A i \in DOMAIN ignoredKeywords : ignoredKeywords[i] = ToLowerCase(ignoredKeywords[i])
    /\ (probeIn.op = "add" /\ Has(probeOut, ToLowerCase(probeIn.keyword)))
          => ignoredKeywords = probeOut
    /\ probeIn.op = "remove" =>
          \A i \in DOMAIN ignoredKeywords :
             ToLowerCase(ignoredKeywords[i]) # ToLowerCase(probeIn.keyword)

-----------------------------------------------------------------------------
(* api.ts: fetchBookmarks                                                  *)

PageSize == 100

MaxCount == 201

\* Math.ceil(count / 100) as count / 100 rounded down plus one
maxRequestsRoundedDownPlusOne(count) == (count \div PageSize) + 1

\* Math.ceil(count / 100)
maxRequestsOf(count) == (count + PageSize - 1) \div PageSize

\* Math.min(100, count - allTweets.length)
maxResultsOf(count, held) == Min2(PageSize, count - held)

\* the numbers of tweets a page may hold when asked for at most asked: none,
\* one, one less than asked, as many as asked, and one more than asked
PageLengths(asked) == { n \in { 0, 1, asked - 1, asked, asked + 1 } : n >= 0 }

FetchFrame ==
  UNCHANGED << pc, tweets, minClusterSize, bookmarks, clusters, skills, clock,
               probeScore, probeLevel, probeVars, searchVars, fileVars, handler, reply >>

\* fetchBookmarks(count) is called and sends the user lookup
FetchBookmarks ==
  /\ pc = "fetch"
  /\ fetch.at = "idle"
  /\ \E count \in 1..MaxCount :
        fetch' = [ fetch EXCEPT !.at = "user", !.count = count, !.lookups = @ + 1 ]
  /\ FetchFrame

\* getCurrentUser returns, the locals are set; or it throws
UserArrives ==
  /\ pc = "fetch"
  /\ fetch.at = "user"
  /\ \/ fetch' = [ fetch EXCEPT !.at = "loop", !.allTweets = 0, !.nextToken = FALSE,
                                !.requests = 0,
                                !.maxRequests = maxRequestsOf(fetch.count) ]
     \/ fetch' = [ fetch EXCEPT !.at = "threw" ]
  /\ FetchFrame

\* the test of the while loop, and in the loop the request of one page
RequestPage ==
  /\ pc = "fetch"
  /\ fetch.at = "loop"
  /\ IF fetch.requests < fetch.maxRequests
       THEN fetch' = [ fetch EXCEPT !.at = "page", !.pages = @ + 1,
                         !.maxResults = maxResultsOf(fetch.count, fetch.allTweets) ]
       ELSE fetch' = [ fetch EXCEPT !.at = "returned" ]
  /\ FetchFrame

\* the page arrives with n tweets and with or without a next_token; or
\* apiGet throws
PageArrives ==
  /\ pc = "fetch"
  /\ fetch.at = "page"
  /\ \/ \E n \in PageLengths(fetch.maxResults), token \in BOOLEAN :
           fetch' = [ fetch EXCEPT !.at = "arrived", !.allTweets = @ + n,
                                   !.nextToken = token,
                                   !.overfull = @ \/ n > fetch.maxResults ]
     \/ fetch' = [ fetch EXCEPT !.at = "threw" ]
  /\ FetchFrame

\* if (!nextToken) break; requests++; sleep
AfterPage ==
  /\ pc = "fetch"
  /\ fetch.at = "arrived"
  /\ IF ~fetch.nextToken
       THEN fetch' = [ fetch EXCEPT !.at = "returned" ]
       ELSE fetch' = [ fetch EXCEPT !.at = "loop", !.requests = @ + 1 ]
  /\ FetchFrame

InitFetch ==
  /\ pc = "fetch"
  /\ tweets = << >>
  /\ minClusterSize = DefaultMinClusterSize
  /\ bookmarks = << >>
  /\ clusters = << >>
  /\ skills = << >>
  /\ clock = Now0
  /\ probeScore = 0
  /\ probeLevel = NoLevel
  /\ NoProbeCall
  /\ NoSearch
  /\ NoFiles
  /\ NoCalls

NextFetch ==
  \/ FetchBookmarks
  \/ UserArrives
  \/ RequestPage
  \/ PageArrives
  \/ AfterPage

SpecFetch == InitFetch /\ [][NextFetch]_vars

\* every awaited response arrives and the call goes on running
SpecFetchLive == SpecFetch /\ WF_vars(NextFetch)

\* the least number of pages of 100 that hold count tweets
PagesFor(count) == CHOOSE k \in 0..count : 100 * k >= count /\ 100 * (k - 1) < count

\* in every state of a call: one user lookup, at most ceil(count / 100) page
\* requests, each for at most min(100, count - fetched so far) tweets, no
\* request after a page without next_token, and at most count tweets as
\* long as no page held more than was asked for
FetchWithinBounds ==
  fetch.at # "idle" =>
    /\ fetch.lookups = 1
    /\ fetch.pages <= PagesFor(fetch.count)
    /\ fetch.at = "page" =>
          /\ fetch.maxResults <= 100
          /\ fetch.maxResults <= fetch.count - fetch.allTweets
          /\ fetch.pages > 1 => fetch.nextToken
    /\ (fetch.at = "loop" /\ fetch.pages > 0) => fetch.nextToken
    /\ ~fetch.overfull => fetch.allTweets <= fetch.count

FetchEnded == fetch.at \in { "returned", "threw" }

\* C29: fetchBookmarks(count) ends for every count >= 1 and every sequence
\* of pages, and until then it stays within the bounds above.
FetchTerminatesWithinBounds ==
  /\ []FetchWithinBounds
  /\ (fetch.at # "idle") ~> FetchEnded

\* a call for 201 tweets returned them after three full pages
FetchTerminatesWithinBoundsWitness ==
  /\ fetch.at = "returned"
  /\ fetch.count = 201
  /\ fetch.pages = 3
  /\ fetch.allTweets = 201
  /\ ~fetch.overfull

====
